---- MODULE Spec2Model ----
(***************************************************************************)
(* Credential and session state management of google_workspace_mcp:        *)
(*   auth/redis_state_store.py  RedisStateStore (durable tier)              *)
(*   auth/scopes.py             store_oauth_state / get_oauth_state         *)
(*   auth/google_auth.py        save/load of credentials, get_credentials   *)
(*                                                                         *)
(* Two specifications share the durable-store connection:                  *)
(*   SpecState  pending-authorization records (correlation tokens)          *)
(*   Spec       credentials: callback, direct save/load, get_credentials    *)
(* Python's None is the string "None"; an absent record is the record None. *)
(***************************************************************************)
EXTENDS Integers, FiniteSets, Sequences, TLC

\* ---------------------------------------------------------------- bounds
\* Number of correlation tokens that start_auth_flow may draw.
MaxStates == 1
\* Number of access tokens the authorization provider issues (exchange or
\* refresh) in one behaviour.
MaxTok == 2
\* Last instant of the clock; an access token lives TokenLife instants.
MaxTime == 1
\* Last instant of the clock and last access token while two threads refresh.
RaceMaxTime == 2
RaceMaxTok == 3

\* ---------------------------------------------------------------- domains
NoneStr == "None"
None == [none |-> TRUE]

StateTokens == 1..MaxStates
SessionIds == {"s1"}
Tenants == {"T1", "T2"}
\* the client secret that belongs to a tenant client id
SecretOf(client_id) == IF client_id = NoneStr THEN NoneStr ELSE "secret"
Procs == {"p1", "p2"}
\* request flows that run get_credentials
FlowProcs == {"p1"}
\* threads that run get_credentials at the same time (asyncio.to_thread)
RaceProcs == {"p1", "p2"}

OptSession == SessionIds \cup {NoneStr}
OptSecret == {NoneStr, "secret"}
OptTenant == {"T1", NoneStr}

Truthy(x) == x # NoneStr

Users == {"ua"}
OptUser == Users \cup {NoneStr}
AnyTenant == Tenants \cup {NoneStr}
Scopes == {"read", "write"}
GrantSets == {{"read"}, {"read", "write"}}
\* the identities a caller can name: "ub" never completes an authorization
Identities == Users \cup {"ub"}
\* keys user_creds:<client_id>:<user_email>, the key of a missing email included
UserKeys == AnyTenant \X (Identities \cup {NoneStr})

VARIABLES
  \* durable store server and RedisStateStore instance
  redisUp,      \* the Redis server answers (environment)
  clientSet,    \* RedisStateStore._client is not None
  enabled,      \* RedisStateStore.enabled
  \* pending-authorization namespace
  rOauth,       \* Redis keys oauth_state:<state> -> JSON text, or None
  infoMap,      \* OAUTH_STATE_TO_SESSION_INFO_MAP
  legacyMap,    \* OAUTH_STATE_TO_SESSION_ID_MAP
  gpc,          \* position of each request flow inside get_oauth_state
  garg,         \* the state argument of the running get_oauth_state
  gret,         \* outcome of the get_oauth_state call that returned last
  \* history of the pending-authorization namespace (observation only)
  issued,       \* tokens that store_oauth_state has stored
  stored,       \* the tuple passed to store_oauth_state, per token, kept
                \* until the first get_oauth_state for the token returns
  tier,         \* tier that took the record: "redis" or "mem"
  hits,         \* number of get_oauth_state calls that returned a record
  lapsed,       \* the Redis TTL of the token's record has elapsed
  overdue,      \* tokens stored longer ago than the lifetime of a record
  resolved,     \* tokens for which a get_oauth_state has returned
  gflag,        \* per flow: facts about the running call
  \* credentials
  now,          \* the clock
  nextTok,      \* next access token the provider issues
  rSess,        \* Redis keys session_creds:<session_id> -> JSON text
  rUser,        \* Redis keys user_creds:<client_id>:<user_email> -> JSON text
  mSess,        \* _SESSION_CREDENTIALS_CACHE
  flow,         \* per request flow: the running get_credentials, if any
  \* lifetimes of the credential entries in Redis
  sessAge,      \* instants since the last SETEX/EXPIRE of session_creds:<id>
  userAge,      \* instants since the last SETEX/EXPIRE of user_creds:<..>
  \* history of the credential keys (observation only)
  sessNote,     \* per session key: last credential saved, tier, what became
  userNote      \* per identity key: of it (lapsed, deleted, garbled)

rconn == <<redisUp, clientSet, enabled>>
svars == <<rOauth, infoMap, legacyMap, gpc, garg, gret,
           issued, stored, tier, hits, lapsed, overdue, resolved, gflag>>
tvars == <<sessAge, userAge, sessNote, userNote>>

\* ------------------------------------------------- RedisStateStore.client
\* The property connects lazily: from_url assigns _client, then ping() may
\* fail, which clears `enabled` but leaves _client assigned.
ClientConnects == ~clientSet /\ enabled

\* value of `self.client` is not None
client == IF ClientConnects THEN redisUp ELSE clientSet

\* effect of evaluating `self.client` once
clientTouch ==
  /\ clientSet' = (clientSet \/ enabled)
  /\ enabled' = IF ClientConnects /\ ~redisUp THEN FALSE ELSE enabled
  /\ UNCHANGED redisUp

\* a command sent through the client is answered (no RedisError)
RedisOk == client /\ redisUp

\* ------------------------------------------------------------ environment
RedisFail ==
  /\ redisUp
  /\ redisUp' = FALSE
  /\ UNCHANGED <<clientSet, enabled>>

RedisRecover ==
  /\ ~redisUp
  /\ redisUp' = TRUE
  /\ UNCHANGED <<clientSet, enabled>>

\* ------------------------------------------- pending-authorization records
\* OAuthStateInfo(session_id, client_id, client_secret)
OAuthStateInfo(session_id, client_id, client_secret) ==
  [session_id |-> session_id, client_id |-> client_id,
   client_secret |-> client_secret]

\* json.dumps of one field: None becomes null
JsonField(v) == IF v = NoneStr THEN "null" ELSE v
\* json.loads of one field: null becomes None
PyField(v) == IF v = "null" THEN NoneStr ELSE v

\* json.dumps(data) in RedisStateStore.store_oauth_state
StateJsonDumps(session_id, client_id, client_secret) ==
  [json |-> <<JsonField(session_id), JsonField(client_id),
               JsonField(client_secret)>>]

\* the same without data.get("client_secret")
StateFromJson_DropsSecret(j) ==
  OAuthStateInfo(PyField(j.json[1]), PyField(j.json[2]), NoneStr)

\* json.loads(data_str) followed by the three data.get(...) of get_oauth_state
StateFromJson(j) ==
  OAuthStateInfo(PyField(j.json[1]), PyField(j.json[2]), PyField(j.json[3]))

NoFlag == [late |-> FALSE, served |-> FALSE, rival |-> FALSE]

\* what the running call of a flow has seen so far:
\*   late    a call for the same token had already returned a record
\*   served  the durable tier answered the pipeline before the TTL elapsed
\*   rival   a concurrent call for the same token returned a record meanwhile
CallFlag(state) ==
  [late |-> hits[state] >= 1,
   served |-> RedisOk /\ ~lapsed[state],
   rival |-> FALSE]

\* how a returned value compares with the tuple that was stored for the token
Compare(state, val) ==
  IF val = None THEN "none"
  ELSE IF val = stored[state] THEN "same" ELSE "other"

\* observation of a get_oauth_state call that returns val
Outcome(state, val, flag) ==
  [state |-> state, res |-> Compare(state, val), late |-> flag.late,
   first |-> state \notin resolved, served |-> flag.served,
   rival |-> flag.rival]

NoOutcome == [state |-> 0, res |-> "none", late |-> FALSE, first |-> FALSE,
              served |-> FALSE, rival |-> FALSE]

InitState ==
  /\ rOauth = [t \in StateTokens |-> None]
  /\ infoMap = [t \in StateTokens |-> None]
  /\ legacyMap = [t \in StateTokens |-> NoneStr]
  /\ gpc = [p \in Procs |-> "idle"]
  /\ garg = [p \in Procs |-> 0]
  /\ gret = NoOutcome
  /\ issued = {}
  /\ stored = [t \in StateTokens |-> None]
  /\ tier = [t \in StateTokens |-> NoneStr]
  /\ hits = [t \in StateTokens |-> 0]
  /\ lapsed = [t \in StateTokens |-> FALSE]
  /\ overdue = {}
  /\ resolved = {}
  /\ gflag = [p \in Procs |-> NoFlag]

\* RedisStateStore.store_oauth_state: SETEX oauth_state:<state> with the TTL
Redis_store_oauth_state(state, session_id, client_id, client_secret) ==
  [rOauth EXCEPT ![state] = StateJsonDumps(session_id, client_id, client_secret)]

\* store_oauth_state as start_auth_flow calls it: the state is a fresh value
\* of os.urandom(16).hex(), so a token is stored once.
store_oauth_state(state, session_id, client_id, client_secret) ==
  /\ state \notin issued
  /\ clientTouch
  /\ IF RedisOk
       THEN /\ rOauth' = Redis_store_oauth_state(state, session_id, client_id,
                                                 client_secret)
            /\ UNCHANGED <<infoMap, legacyMap>>
       ELSE /\ infoMap' = [infoMap EXCEPT
                 ![state] = OAuthStateInfo(session_id, client_id, client_secret)]
            /\ legacyMap' = IF Truthy(session_id)
                 THEN [legacyMap EXCEPT ![state] = session_id]
                 ELSE legacyMap
            /\ UNCHANGED rOauth
  /\ issued' = issued \cup {state}
  /\ stored' = [stored EXCEPT
         ![state] = OAuthStateInfo(session_id, client_id, client_secret)]
  /\ tier' = [tier EXCEPT ![state] = IF RedisOk THEN "redis" ELSE "mem"]
  /\ UNCHANGED <<gpc, garg, gret, hits, lapsed, overdue, resolved, gflag>>

\* create_oauth_flow raises FileNotFoundError: neither the parameters nor the
\* environment (GOOGLE_OAUTH_CLIENT_ID/_SECRET, the client secrets file;
\* `configured`) give a client configuration
create_oauth_flow_raises(client_id, client_secret, configured) ==
  ~(Truthy(client_id) /\ Truthy(client_secret)) /\ ~configured

\* start_auth_flow: store_oauth_state for the fresh state, then
\* create_oauth_flow; when that raises, the except clauses log and raise
\* again, and nothing is taken back
start_auth_flow(state, session_id, client_id, client_secret, configured) ==
  store_oauth_state(state, session_id, client_id, client_secret)

\* the running get_oauth_state of flow p returns val
GetReturns(p, state, val, flag) ==
  /\ gpc' = [gpc EXCEPT ![p] = "idle"]
  /\ gret' = Outcome(state, val, flag)
  /\ hits' = IF val # None THEN [hits EXCEPT ![state] = @ + 1] ELSE hits
  /\ resolved' = resolved \cup {state}
  /\ stored' = [stored EXCEPT ![state] = None]
  /\ gflag' = [q \in Procs |->
       IF q = p THEN NoFlag
       ELSE IF gpc[q] # "idle" /\ garg[q] = state /\ val # None
              THEN [gflag[q] EXCEPT !.rival = TRUE]
              ELSE gflag[q]]

\* get_oauth_state, Redis part: RedisStateStore.get_oauth_state runs GET and
\* DELETE in one pipeline; redis-py pipelines are MULTI/EXEC transactions by
\* default, so the two commands are one step of the server. The state comes
\* from a callback URL, and only a token that was handed out can be in one.
get_oauth_state_redis(p, state) ==
  /\ gpc[p] = "idle"
  /\ state \in issued
  /\ clientTouch
  /\ garg' = [garg EXCEPT ![p] = state]
  /\ IF RedisOk /\ rOauth[state] # None
       THEN /\ rOauth' = [rOauth EXCEPT ![state] = None]
            /\ GetReturns(p, state, StateFromJson(rOauth[state]), CallFlag(state))
       ELSE /\ gpc' = [gpc EXCEPT ![p] = "info"]
            /\ gflag' = [gflag EXCEPT ![p] = CallFlag(state)]
            /\ UNCHANGED <<rOauth, gret, hits, resolved, stored>>
  /\ UNCHANGED <<infoMap, legacyMap, issued, tier, lapsed, overdue>>

\* get_oauth_state, OAUTH_STATE_TO_SESSION_INFO_MAP.pop(state, None)
get_oauth_state_info(p) ==
  /\ gpc[p] = "info"
  /\ infoMap' = [infoMap EXCEPT ![garg[p]] = None]
  /\ IF infoMap[garg[p]] # None
       THEN GetReturns(p, garg[p], infoMap[garg[p]], gflag[p])
       ELSE /\ gpc' = [gpc EXCEPT ![p] = "legacy"]
            /\ UNCHANGED <<gret, hits, resolved, stored, gflag>>
  /\ UNCHANGED <<rconn, rOauth, legacyMap, garg, issued, tier, lapsed, overdue>>

\* the value get_oauth_state builds from a legacy map entry
LegacyResult(session_id) ==
  IF Truthy(session_id)
    THEN OAuthStateInfo(session_id, NoneStr, NoneStr)
    ELSE None

\* get_oauth_state, OAUTH_STATE_TO_SESSION_ID_MAP.pop(state, None)
get_oauth_state_legacy(p) ==
  /\ gpc[p] = "legacy"
  /\ legacyMap' = [legacyMap EXCEPT ![garg[p]] = NoneStr]
  /\ GetReturns(p, garg[p], LegacyResult(legacyMap[garg[p]]), gflag[p])
  /\ UNCHANGED <<rconn, rOauth, infoMap, garg, issued, tier, lapsed, overdue>>

\* the lifetime of a record (self.ttl, 10 minutes) has passed since the token
\* was stored: Redis drops the oauth_state key if it still holds it; the
\* in-memory maps have no timer
ExpireOauthState(state) ==
  /\ state \in issued
  /\ state \notin overdue
  /\ overdue' = overdue \cup {state}
  /\ rOauth' = [rOauth EXCEPT ![state] = None]
  /\ lapsed' = IF rOauth[state] # None
       THEN [lapsed EXCEPT ![state] = TRUE]
       ELSE lapsed
  /\ UNCHANGED <<rconn, infoMap, legacyMap, gpc, garg, gret, issued, stored,
                 tier, hits, resolved, gflag>>

\* ------------------------------------------------------------ credentials
TokenUri == "token_uri"

\* google.oauth2.credentials.Credentials(token, refresh_token, token_uri,
\* client_id, client_secret, scopes, expiry); expiry is {} for None
Credentials(token, refresh_token, client_id, scopes, expiry) ==
  [token |-> token, refresh_token |-> refresh_token, token_uri |-> TokenUri,
   client_id |-> client_id, client_secret |-> SecretOf(client_id),
   scopes |-> scopes, expiry |-> expiry]

\* Credentials.expired: an expiry is set and has been reached
expired(c) == \E e \in c.expiry : now >= e

\* Credentials.valid: a token is present and it is not expired
valid(c) == ~expired(c)

\* credentials.expiry.isoformat() / datetime.fromisoformat(...)
IsoFormat(e) == <<"iso", e>>
FromIsoFormat(x) == x[2]

\* json.dumps(creds_data) of save_credentials_to_file / _to_session
CredsJson(c) ==
  [text |-> [token |-> c.token,
             refresh_token |-> JsonField(c.refresh_token),
             token_uri |-> c.token_uri,
             client_id |-> JsonField(c.client_id),
             client_secret |-> JsonField(c.client_secret),
             scopes |-> c.scopes,
             expiry |-> {IsoFormat(e) : e \in c.expiry}]]

\* the Credentials(...) of the load functions built without expiry
CredsFromJson_NoExpiry(j) ==
  [token |-> j.text.token,
   refresh_token |-> PyField(j.text.refresh_token),
   token_uri |-> j.text.token_uri,
   client_id |-> PyField(j.text.client_id),
   client_secret |-> PyField(j.text.client_secret),
   scopes |-> j.text.scopes,
   expiry |-> {}]

\* json.loads and the Credentials(...) built by load_credentials_from_file
\* and load_credentials_from_session
CredsFromJson(j) ==
  [token |-> j.text.token,
   refresh_token |-> PyField(j.text.refresh_token),
   token_uri |-> j.text.token_uri,
   client_id |-> PyField(j.text.client_id),
   client_secret |-> PyField(j.text.client_secret),
   scopes |-> j.text.scopes,
   expiry |-> {FromIsoFormat(x) : x \in j.text.expiry}]

\* the Credentials(...) built by _find_any_credentials: no expiry is passed
FileCredentials(j) == [CredsFromJson(j) EXCEPT !.expiry = {}]

\* _find_any_credentials: the first loadable file of os.listdir(base_dir),
\* or None (the directory holds at most one file here)
_find_any_credentials(base_dir) ==
  IF base_dir = {} THEN None ELSE FileCredentials(CHOOSE j \in base_dir : TRUE)

\* a stored text that json.loads rejects (JSONDecodeError)
Garbled == [garbled |-> TRUE]

\* a stored text that json.loads accepts but that is no JSON object (a list,
\* a number, null): creds_data.get(...) raises AttributeError
NotAnObject == [notAnObject |-> TRUE]

\* the exception that json.loads and the reading of the fields raise
ParseError(j) ==
  IF j = Garbled THEN "JSONDecodeError"
  ELSE IF j = NotAnObject THEN "AttributeError"
  ELSE "none"

\* except (json.JSONDecodeError, KeyError) of both load functions
LoadCaught == {"JSONDecodeError", "KeyError"}

\* an exception leaves the function
Raise(e) == [raised |-> e]

Decodable(j) == ParseError(j) = "none"

\* RedisStateStore.get_session_credentials on the entries rs
Redis_get_session_credentials(rs, session_id) ==
  IF RedisOk THEN rs[session_id] ELSE None

\* get_user_credentials without its "if not self.client" test
Redis_get_user_credentials_Unguarded(ru, user_email, client_id) ==
  ru[<<client_id, user_email>>]

\* RedisStateStore.get_user_credentials on the entries ru
Redis_get_user_credentials(ru, user_email, client_id) ==
  IF RedisOk THEN ru[<<client_id, user_email>>] ELSE None

\* load_credentials_from_session: the Redis entry, else (nothing there, or a
\* text that does not parse) the in-memory cache
load_credentials_from_session(rs, m, session_id) ==
  IF /\ Redis_get_session_credentials(rs, session_id) # None
     /\ Decodable(Redis_get_session_credentials(rs, session_id))
    THEN CredsFromJson(Redis_get_session_credentials(rs, session_id))
  ELSE IF /\ Redis_get_session_credentials(rs, session_id) # None
          /\ ParseError(Redis_get_session_credentials(rs, session_id))
                \notin LoadCaught
    THEN Raise(ParseError(Redis_get_session_credentials(rs, session_id)))
    ELSE m[session_id]

\* load_credentials_from_file calls get_user_credentials at all
FileLoadReads(client_id) == Truthy(client_id)

\* load_credentials_from_file: None without a client_id, else the Redis entry
\* (None when its text does not parse)
load_credentials_from_file(ru, user_google_email, client_id) ==
  IF ~FileLoadReads(client_id) THEN None
  ELSE IF /\ Redis_get_user_credentials(ru, user_google_email, client_id) # None
          /\ Decodable(Redis_get_user_credentials(ru, user_google_email, client_id))
    THEN CredsFromJson(Redis_get_user_credentials(ru, user_google_email, client_id))
  ELSE IF /\ Redis_get_user_credentials(ru, user_google_email, client_id) # None
          /\ ParseError(Redis_get_user_credentials(ru, user_google_email, client_id))
                \notin LoadCaught
    THEN Raise(ParseError(Redis_get_user_credentials(ru, user_google_email, client_id)))
    ELSE None

\* save_credentials_to_file without its client_id test
FileSaveWrites_Always(credentials) == TRUE

\* save_credentials_to_file writes for this credential at all
FileSaveWrites(credentials) == Truthy(credentials.client_id)

\* save_credentials_to_file: rUser afterwards. Nothing is written for a
\* credential without client_id, or when the durable store does not answer.
save_credentials_to_file(user_google_email, credentials) ==
  IF FileSaveWrites(credentials) /\ RedisOk
    THEN [rUser EXCEPT
            ![<<credentials.client_id, user_google_email>>] = CredsJson(credentials)]
    ELSE rUser

\* save_credentials_to_session without its store_session_credentials call
save_credentials_to_session_redis_Skipped(session_id, credentials) == rSess

\* save_credentials_to_session: rSess afterwards
save_credentials_to_session_redis(session_id, credentials) ==
  IF RedisOk THEN [rSess EXCEPT ![session_id] = CredsJson(credentials)] ELSE rSess

\* save_credentials_to_session without its in-memory fallback
save_credentials_to_session_cache_NoFallback(m, session_id, credentials) == m

\* save_credentials_to_session: _SESSION_CREDENTIALS_CACHE afterwards (from m)
save_credentials_to_session_cache(m, session_id, credentials) ==
  IF RedisOk THEN m ELSE [m EXCEPT ![session_id] = credentials]

\* the scope test with any() in place of all()
ScopesOk_Any(credentials, required_scopes) ==
  \E scope \in required_scopes : scope \in credentials.scopes

\* the scope test of get_credentials
ScopesOk(credentials, required_scopes) ==
  \A scope \in required_scopes : scope \in credentials.scopes

Idle == [pc |-> "idle"]

\* the arguments of a get_credentials call
Call(user_google_email, required_scopes, session_id, provided_client_id, client_secrets_path, single_user_mode, base_dir) ==
  [user |-> user_google_email, req |-> required_scopes, sid |-> session_id,
   cid |-> provided_client_id, csp |-> client_secrets_path,
   single |-> single_user_mode, dir |-> base_dir]

\* legacy credential files an earlier version of save_credentials_to_file
\* left in the credentials directory: issued long ago, so expired
LegacyFiles ==
  {CredsJson(Credentials(0, rt, "T1", {"read"}, {0})) : rt \in {NoneStr, "rt"}}

\* what the credentials directory can hold when get_credentials lists it
Directories == {{}} \cup {{f} : f \in LegacyFiles}

InitCreds ==
  /\ now = 0
  /\ nextTok = 1
  /\ rSess = [s \in SessionIds |-> None]
  /\ rUser = [k \in UserKeys |-> None]
  /\ mSess = [s \in SessionIds |-> None]
  /\ flow = [p \in RaceProcs |-> Idle]

cvars == <<now, nextTok, rSess, rUser, mSess, flow>>

\* lifetime of an access token, in instants of the clock
TokenLife == 1

\* handle_auth_callback: the provider exchanges the code for a credential of
\* the flow's client_id, get_user_info names the user; the credential is
\* saved under the identity key and, with a session_id, the session key.
handle_auth_callback(session_id, client_id, user_google_email, refresh_token, scopes) ==
  /\ nextTok <= MaxTok
  /\ clientTouch
  /\ LET credentials == Credentials(nextTok, refresh_token, client_id, scopes,
                                    {now + TokenLife})
     IN /\ rUser' = save_credentials_to_file(user_google_email, credentials)
        /\ rSess' = IF Truthy(session_id)
             THEN save_credentials_to_session_redis(session_id, credentials)
             ELSE rSess
        /\ mSess' = IF Truthy(session_id)
             THEN save_credentials_to_session_cache(mSess, session_id, credentials)
             ELSE mSess
  /\ nextTok' = nextTok + 1
  /\ UNCHANGED <<now, flow>>

\* a decision that refreshes every credential that has a refresh token
Decide_RefreshFirst(credentials, call) ==
  IF ~ScopesOk(credentials, call.req) THEN "scopes"
  ELSE IF Truthy(credentials.refresh_token) /\ call.csp THEN "refresh"
  ELSE IF valid(credentials) THEN "valid"
  ELSE "cannot_refresh"

\* a decision that looks at expiry and refresh token before the scopes
Decide_ScopesLast(credentials, call) ==
  IF expired(credentials) /\ Truthy(credentials.refresh_token) /\ call.csp
    THEN "refresh"
  ELSE IF ~ScopesOk(credentials, call.req) THEN "scopes"
  ELSE IF valid(credentials) THEN "valid"
  ELSE IF expired(credentials) /\ Truthy(credentials.refresh_token)
    THEN "no_secrets_path"
  ELSE "cannot_refresh"

\* a decision that goes to the refresh without looking at client_secrets_path
Decide_IgnoresSecretsPath(credentials, call) ==
  IF ~ScopesOk(credentials, call.req) THEN "scopes"
  ELSE IF valid(credentials) THEN "valid"
  ELSE IF expired(credentials) /\ Truthy(credentials.refresh_token) THEN "refresh"
  ELSE "cannot_refresh"

\* the validity/refresh decision of get_credentials for a found credential
Decide(credentials, call) ==
  IF ~ScopesOk(credentials, call.req) THEN "scopes"
  ELSE IF valid(credentials) THEN "valid"
  ELSE IF expired(credentials) /\ Truthy(credentials.refresh_token)
    THEN (IF call.csp THEN "refresh" ELSE "no_secrets_path")
  ELSE "cannot_refresh"

\* What get_credentials does in single-user mode: the branch taken (why), the
\* value returned unless it goes on to refresh (val), the stored form of the
\* credential found, where it came from, the identity-scoped reads it made,
\* and the stores afterwards. No store is read or written.
get_credentials_single_user(call) ==
  LET credentials == _find_any_credentials(call.dir)
      why == IF credentials = None THEN "not_found" ELSE Decide(credentials, call)
  IN [why |-> why,
      val |-> IF why = "valid" THEN credentials ELSE None,
      cred |-> credentials,
      found |-> IF call.dir = {} THEN None
                ELSE CredsFromJson(CHOOSE j \in call.dir : TRUE),
      src |-> "file", ureads |-> 0, touch |-> FALSE,
      rSess |-> rSess, mSess |-> mSess]

\* a multi-tenant lookup that tries the identity key whatever the session
\* load returned
TriesIdentityLoad_Always(fromSess, call) ==
  Truthy(call.user) /\ Truthy(call.cid)

\* a multi-tenant lookup that tries the identity key as soon as a tenant is
\* given
TriesIdentityLoad_TenantOnly(fromSess, call) ==
  fromSess = None /\ Truthy(call.cid)

\* get_credentials, multi-tenant: "if not credentials and user_google_email
\* and provided_client_id" guards load_credentials_from_file
TriesIdentityLoad(fromSess, call) ==
  fromSess = None /\ Truthy(call.user) /\ Truthy(call.cid)

\* a multi-tenant lookup that never copies an identity credential
Promotes_Never(fromUser, call) == FALSE

\* a multi-tenant lookup that copies an identity credential only if it has
\* the required scopes
Promotes_ScopesFirst(fromUser, call) ==
  fromUser # None /\ Truthy(call.sid) /\ ScopesOk(fromUser, call.req)

\* get_credentials, multi-tenant: "if credentials: ... if session_id:" guards
\* save_credentials_to_session after the identity load
Promotes(fromUser, call) == fromUser # None /\ Truthy(call.sid)

\* What get_credentials does in multi-tenant mode, up to the refresh call:
\* session load, identity load with cache promotion, scope check, validity
get_credentials_multi_tenant(call) ==
  LET trySess == Truthy(call.sid)
      fromSess == IF trySess
                    THEN load_credentials_from_session(rSess, mSess, call.sid)
                    ELSE None
      inRedis == trySess /\ Redis_get_session_credentials(rSess, call.sid) # None
      tryUser == TriesIdentityLoad(fromSess, call)
      fromUser == IF tryUser
                    THEN load_credentials_from_file(rUser, call.user, call.cid)
                    ELSE None
      credentials == IF fromSess # None THEN fromSess ELSE fromUser
      promote == Promotes(fromUser, call)
      why == IF credentials = None THEN "not_found" ELSE Decide(credentials, call)
  IN [why |-> why,
      val |-> IF why = "valid" THEN credentials ELSE None,
      cred |-> credentials,
      found |-> credentials,
      src |-> IF fromSess # None
                THEN (IF inRedis THEN "session_redis" ELSE "session_cache")
                ELSE IF fromUser # None THEN "user" ELSE "none",
      ureads |-> IF tryUser /\ FileLoadReads(call.cid) THEN 1 ELSE 0,
      touch |-> trySess \/ (tryUser /\ FileLoadReads(call.cid)),
      rSess |-> IF promote
                  THEN save_credentials_to_session_redis(call.sid, credentials)
                  ELSE rSess,
      mSess |-> IF promote
                  THEN save_credentials_to_session_cache(mSess, call.sid, credentials)
                  ELSE mSess]

\* a get_credentials without the MCP_SINGLE_USER_MODE branch
get_credentials_result_NoBypass(call) == get_credentials_multi_tenant(call)

\* MCP_SINGLE_USER_MODE and the credentials directory are read at each call
get_credentials_result(call) ==
  IF call.single THEN get_credentials_single_user(call)
                 ELSE get_credentials_multi_tenant(call)

\* get_credentials, from its entry to its return or to the refresh call
get_credentials(p, call) ==
  /\ flow[p] = Idle
  /\ LET r == get_credentials_result(call)
     IN /\ IF r.touch THEN clientTouch ELSE UNCHANGED rconn
        /\ rSess' = r.rSess
        /\ mSess' = r.mSess
        /\ flow' = IF r.why = "refresh"
             THEN [flow EXCEPT ![p] =
                     [pc |-> "refresh", user |-> call.user, sid |-> call.sid,
                      cred |-> r.cred, src |-> r.src, refreshes |-> 1]]
             ELSE flow
  /\ UNCHANGED <<now, nextTok, rUser>>

\* credentials.refresh(Request()) succeeded: a new token and expiry
Refreshed(credentials) ==
  [credentials EXCEPT !.token = nextTok, !.expiry = {now + TokenLife}]

\* a refresh that drops the cache entry of the session
CacheAfterRefresh_Evicts(f, credentials) ==
  IF f.sid \in SessionIds THEN [mSess EXCEPT ![f.sid] = None] ELSE mSess

\* the refreshed object is the cached one when it came from the in-memory
\* cache: the cache entry changes with it
CacheAfterRefresh(f, credentials) ==
  IF f.src = "session_cache" /\ mSess[f.sid] = f.cred
    THEN [mSess EXCEPT ![f.sid] = credentials]
    ELSE mSess

\* a refresh branch that calls credentials.refresh again after a failure
get_credentials_refresh_Retry(f, outcome) ==
  [why |-> "retry", val |-> None, touch |-> FALSE, minted |-> FALSE,
   rUser |-> rUser, rSess |-> rSess, mSess |-> mSess,
   next |-> IF outcome = "ok" THEN Idle ELSE [f EXCEPT !.refreshes = @ + 1]]

\* a refresh branch that calls credentials.refresh again, as often as it
\* fails
get_credentials_refresh_Again(f, outcome) ==
  [why |-> "again", val |-> None, touch |-> FALSE, minted |-> outcome = "ok",
   rUser |-> rUser, rSess |-> rSess, mSess |-> mSess,
   next |-> IF outcome = "ok" THEN Idle ELSE f]

\* What get_credentials does once credentials.refresh(Request()) has
\* answered "ok", "rejected" (RefreshError) or "error" (another exception):
\* the value returned, the stores afterwards and the flow's next position.
get_credentials_refresh_result(f, outcome) ==
  LET credentials == Refreshed(f.cred)
  IN IF outcome = "ok"
       THEN [why |-> "refreshed", val |-> credentials,
             touch |-> Truthy(f.user) \/ Truthy(f.sid),
             minted |-> TRUE,
             rUser |-> IF Truthy(f.user)
                         THEN save_credentials_to_file(f.user, credentials)
                         ELSE rUser,
             rSess |-> IF Truthy(f.sid)
                         THEN save_credentials_to_session_redis(f.sid, credentials)
                         ELSE rSess,
             mSess |-> IF Truthy(f.sid)
                         THEN save_credentials_to_session_cache(
                                CacheAfterRefresh(f, credentials), f.sid,
                                credentials)
                         ELSE CacheAfterRefresh(f, credentials),
             next |-> Idle]
       ELSE [why |-> IF outcome = "rejected" THEN "refresh_rejected"
                                             ELSE "refresh_error",
             val |-> None, touch |-> FALSE, minted |-> FALSE,
             rUser |-> rUser, rSess |-> rSess, mSess |-> mSess, next |-> Idle]

RefreshOutcomes == {"ok", "rejected", "error"}

\* get_credentials, from the answer of the refresh call to its return
get_credentials_refresh(p, outcome) ==
  /\ flow[p].pc = "refresh"
  /\ LET r == get_credentials_refresh_result(flow[p], outcome)
     IN /\ r.minted => nextTok <= MaxTok
        /\ IF r.touch THEN clientTouch ELSE UNCHANGED rconn
        /\ rUser' = r.rUser
        /\ rSess' = r.rSess
        /\ mSess' = r.mSess
        /\ nextTok' = IF r.minted THEN nextTok + 1 ELSE nextTok
        /\ flow' = [flow EXCEPT ![p] = r.next]
  /\ UNCHANGED now

\* a credential without client_id, as a caller of save_credentials_to_file
\* can hand it in (google-auth builds one from a token alone)
UnkeyedCredentials ==
  {Credentials(0, rt, NoneStr, {"read"}, {}) : rt \in {NoneStr, "rt"}}

\* save_credentials_to_file called directly
save_credentials_to_file_call(user_google_email, credentials) ==
  /\ IF FileSaveWrites(credentials) THEN clientTouch ELSE UNCHANGED rconn
  /\ rUser' = save_credentials_to_file(user_google_email, credentials)
  /\ UNCHANGED <<now, nextTok, rSess, mSess, flow>>

\* load_credentials_from_file called directly: reads only
load_credentials_from_file_call(user_google_email, client_id) ==
  /\ IF FileLoadReads(client_id) THEN clientTouch ELSE UNCHANGED rconn
  /\ UNCHANGED cvars

\* time passes
Tick ==
  /\ now < MaxTime
  /\ now' = now + 1
  /\ UNCHANGED <<rconn, nextTok, rSess, rUser, mSess, flow>>

\* ------------------------------------------- lifetimes of stored credentials
\* TTL of a session_creds key (timedelta(minutes=30)) and of a user_creds key
\* (timedelta(days=7)), in instants of the store's clock
SessionTtl == 2
UserTtl == 3

\* a key written with SET instead of SETEX: it never expires
Expires_Never(age, ttl) == FALSE

\* SETEX key ttl / EXPIRE key ttl: the key is gone once ttl instants have
\* passed since; age counts the instants passed so far
Expires(age, ttl) == age + 1 >= ttl

NoNote == [saved |-> None, tier |-> "none", gone |-> "no"]

InitStore ==
  /\ sessAge = [s \in SessionIds |-> 0]
  /\ userAge = [k \in UserKeys |-> 0]
  /\ sessNote = [s \in SessionIds |-> NoNote]
  /\ userNote = [k \in UserKeys |-> NoNote]

\* store_session_credentials: SETEX starts the lifetime anew
SessAgeAfterStore(session_id) ==
  IF RedisOk THEN [sessAge EXCEPT ![session_id] = 0] ELSE sessAge

\* get_session_credentials without its EXPIRE
SessAgeAfterGet_NoExpire(session_id) == sessAge

\* get_session_credentials: EXPIRE key 30 min when GET returned a value
SessAgeAfterGet(session_id) ==
  IF RedisOk /\ rSess[session_id] # None
    THEN [sessAge EXCEPT ![session_id] = 0]
    ELSE sessAge

\* store_user_credentials: SETEX starts the lifetime anew
UserAgeAfterStore(user_email, client_id) ==
  IF RedisOk THEN [userAge EXCEPT ![<<client_id, user_email>>] = 0] ELSE userAge

\* get_user_credentials: EXPIRE key 7 days when GET returned a value
UserAgeAfterGet(user_email, client_id) ==
  IF RedisOk /\ rUser[<<client_id, user_email>>] # None
    THEN [userAge EXCEPT ![<<client_id, user_email>>] = 0]
    ELSE userAge

\* credentials handed to the save functions in SpecStore: they differ in
\* token, refresh token, scopes and expiry (one has no expiry)
StoreCreds ==
  {Credentials(1, "rt", "T1", {"read"}, {1}),
   Credentials(2, NoneStr, "T1", {"read", "write"}, {})}

\* save_credentials_to_session called directly
save_credentials_to_session_call(session_id, credentials) ==
  /\ clientTouch
  /\ rSess' = save_credentials_to_session_redis(session_id, credentials)
  /\ mSess' = save_credentials_to_session_cache(mSess, session_id, credentials)
  /\ sessAge' = SessAgeAfterStore(session_id)
  /\ UNCHANGED <<now, nextTok, rUser, flow, userAge>>

\* load_credentials_from_session called directly
load_credentials_from_session_call(session_id) ==
  /\ clientTouch
  /\ sessAge' = SessAgeAfterGet(session_id)
  /\ UNCHANGED <<cvars, userAge>>

\* save_credentials_to_file called directly, with the lifetime of the entry
save_credentials_to_file_stored(user_google_email, credentials) ==
  /\ save_credentials_to_file_call(user_google_email, credentials)
  /\ userAge' = IF FileSaveWrites(credentials)
       THEN UserAgeAfterStore(user_google_email, credentials.client_id)
       ELSE userAge
  /\ UNCHANGED sessAge

\* load_credentials_from_file called directly, with the lifetime of the entry
load_credentials_from_file_stored(user_google_email, client_id) ==
  /\ load_credentials_from_file_call(user_google_email, client_id)
  /\ userAge' = IF FileLoadReads(client_id)
       THEN UserAgeAfterGet(user_google_email, client_id)
       ELSE userAge
  /\ UNCHANGED sessAge

\* RedisStateStore.delete_session_credentials: DEL of the Redis key only
delete_session_credentials(session_id) ==
  /\ clientTouch
  /\ rSess' = IF RedisOk THEN [rSess EXCEPT ![session_id] = None] ELSE rSess
  /\ sessAge' = IF RedisOk THEN [sessAge EXCEPT ![session_id] = 0] ELSE sessAge
  /\ UNCHANGED <<now, nextTok, rUser, mSess, flow, userAge>>

\* RedisStateStore.delete_user_credentials
delete_user_credentials(user_email, client_id) ==
  /\ clientTouch
  /\ rUser' = IF RedisOk
       THEN [rUser EXCEPT ![<<client_id, user_email>>] = None]
       ELSE rUser
  /\ userAge' = IF RedisOk
       THEN [userAge EXCEPT ![<<client_id, user_email>>] = 0]
       ELSE userAge
  /\ UNCHANGED <<now, nextTok, rSess, mSess, flow, sessAge>>

\* the lifetime of the entry under a key runs out at this instant
RunsOut(entry, age, ttl) == entry # None /\ age + 1 >= ttl

\* one instant of the Redis server's clock: entries age, expired keys go
TtlTick ==
  /\ \/ \E s \in SessionIds : rSess[s] # None
     \/ \E k \in UserKeys : rUser[k] # None
  /\ rSess' = [s \in SessionIds |->
       IF rSess[s] # None /\ Expires(sessAge[s], SessionTtl) THEN None
       ELSE rSess[s]]
  /\ sessAge' = [s \in SessionIds |->
       IF rSess[s] = None \/ Expires(sessAge[s], SessionTtl) THEN 0
       ELSE IF sessAge[s] < SessionTtl THEN sessAge[s] + 1 ELSE sessAge[s]]
  /\ rUser' = [k \in UserKeys |->
       IF rUser[k] # None /\ Expires(userAge[k], UserTtl) THEN None
       ELSE rUser[k]]
  /\ userAge' = [k \in UserKeys |->
       IF rUser[k] = None \/ Expires(userAge[k], UserTtl) THEN 0
       ELSE IF userAge[k] < UserTtl THEN userAge[k] + 1 ELSE userAge[k]]
  /\ UNCHANGED <<rconn, now, nextTok, mSess, flow>>

\* the texts that are no credential record
Damaged == {Garbled, NotAnObject}

\* the text under a credential key is replaced by one that is no credential
\* record (truncated write, foreign writer)
CorruptSession(session_id, damage) ==
  /\ rSess[session_id] # None
  /\ Decodable(rSess[session_id])
  /\ rSess' = [rSess EXCEPT ![session_id] = damage]
  /\ UNCHANGED <<rconn, now, nextTok, rUser, mSess, flow, sessAge, userAge>>

CorruptUser(k, damage) ==
  /\ rUser[k] # None
  /\ Decodable(rUser[k])
  /\ rUser' = [rUser EXCEPT ![k] = damage]
  /\ UNCHANGED <<rconn, now, nextTok, rSess, mSess, flow, sessAge, userAge>>

\* history: a credential was handed to a save function for the key
Saved(credentials, tier_) == [saved |-> credentials, tier |-> tier_, gone |-> "no"]

\* history: what became of the entry last saved under the key
Gone(note, how) == [note EXCEPT !.gone = how]

\* ----------------------------------------- get_credentials in two threads
\* The refresh branch of get_credentials step by step: the provider's answer,
\* the assignments credentials.refresh makes to the Credentials object, and
\* the two saves. The object is the one the load returned: a fresh object
\* built from the Redis text, or the very object kept in
\* _SESSION_CREDENTIALS_CACHE, which a second thread then holds as well. Two
\* threads assigning to one object is a data race: every order of the
\* assignments is an outcome.
Shares(f) == f.src = "session_cache"

\* the Credentials object of the running call, as it is now
ObjectOf(f) == IF Shares(f) THEN mSess[f.sid] ELSE f.cred

\* credentials.refresh(Request()): the provider answers with a new token and
\* expiry
refresh_grant(p) ==
  /\ flow[p].pc = "refresh"
  /\ nextTok <= RaceMaxTok
  /\ flow' = [flow EXCEPT ![p] =
       [pc |-> "token", user |-> flow[p].user, sid |-> flow[p].sid,
        cred |-> flow[p].cred, src |-> flow[p].src,
        grant |-> Refreshed(ObjectOf(flow[p])),
        wroteFile |-> FALSE, wroteSess |-> FALSE]]
  /\ nextTok' = nextTok + 1
  /\ UNCHANGED <<rconn, now, rSess, rUser, mSess>>

\* credentials.refresh: self.token = access_token
refresh_assign_token(p) ==
  /\ flow[p].pc = "token"
  /\ IF Shares(flow[p])
       THEN /\ mSess' = [mSess EXCEPT ![flow[p].sid].token = flow[p].grant.token]
            /\ flow' = [flow EXCEPT ![p].pc = "expiry"]
       ELSE /\ flow' = [flow EXCEPT ![p].pc = "expiry",
                                    ![p].cred.token = flow[p].grant.token]
            /\ UNCHANGED mSess
  /\ UNCHANGED <<rconn, now, nextTok, rSess, rUser>>

\* credentials.refresh: self.expiry = expiry
refresh_assign_expiry(p) ==
  /\ flow[p].pc = "expiry"
  /\ IF Shares(flow[p])
       THEN /\ mSess' = [mSess EXCEPT ![flow[p].sid].expiry = flow[p].grant.expiry]
            /\ flow' = [flow EXCEPT ![p].pc = "save_file"]
       ELSE /\ flow' = [flow EXCEPT ![p].pc = "save_file",
                                    ![p].cred.expiry = flow[p].grant.expiry]
            /\ UNCHANGED mSess
  /\ UNCHANGED <<rconn, now, nextTok, rSess, rUser>>

\* if user_google_email: save_credentials_to_file(...) after the refresh
refresh_save_file(p) ==
  /\ flow[p].pc = "save_file"
  /\ IF Truthy(flow[p].user)
       THEN /\ clientTouch
            /\ rUser' = save_credentials_to_file(flow[p].user, ObjectOf(flow[p]))
            /\ flow' = [flow EXCEPT ![p].pc = "save_session",
                 ![p].wroteFile = RedisOk /\ FileSaveWrites(ObjectOf(flow[p]))]
       ELSE /\ flow' = [flow EXCEPT ![p].pc = "save_session"]
            /\ UNCHANGED <<rconn, rUser>>
  /\ UNCHANGED <<now, nextTok, rSess, mSess>>

\* the other running calls once the cache entry of session_id is bound to the
\* object of call p: a call that held the former entry keeps that object
Detach(p, session_id) ==
  [q \in RaceProcs |->
     IF /\ q # p
        /\ flow[q].pc \in {"refresh", "token", "expiry", "save_file", "save_session"}
        /\ Shares(flow[q])
        /\ flow[q].sid = session_id
       THEN [flow[q] EXCEPT !.src = "detached", !.cred = mSess[session_id]]
       ELSE flow[q]]

\* if session_id: save_credentials_to_session(...) after the refresh, and the
\* return of the refreshed credential
refresh_save_session(p) ==
  /\ flow[p].pc = "save_session"
  /\ IF Truthy(flow[p].sid)
       THEN /\ clientTouch
            /\ rSess' = save_credentials_to_session_redis(flow[p].sid,
                                                          ObjectOf(flow[p]))
            /\ mSess' = save_credentials_to_session_cache(mSess, flow[p].sid,
                                                          ObjectOf(flow[p]))
            /\ flow' = [IF RedisOk \/ Shares(flow[p])
                          THEN flow ELSE Detach(p, flow[p].sid)
                        EXCEPT ![p].pc = "done", ![p].wroteSess = RedisOk]
       ELSE /\ flow' = [flow EXCEPT ![p].pc = "done"]
            /\ UNCHANGED <<rconn, rSess, mSess>>
  /\ UNCHANGED <<now, nextTok, rUser>>

\* time passes while the two threads run
RaceTick ==
  /\ now < RaceMaxTime
  /\ now' = now + 1
  /\ UNCHANGED <<rconn, nextTok, rSess, rUser, mSess, flow>>

\* ---------------------------------------------------------- specifications
StoreStep ==
  /\ \E state \in StateTokens, session_id \in OptSession,
        client_id \in OptTenant, client_secret \in OptSecret,
        configured \in BOOLEAN :
       start_auth_flow(state, session_id, client_id, client_secret, configured)
  /\ UNCHANGED <<cvars, tvars>>

GetRedisStep ==
  /\ \E p \in Procs, state \in StateTokens : get_oauth_state_redis(p, state)
  /\ UNCHANGED <<cvars, tvars>>

GetInfoStep ==
  (\E p \in Procs : get_oauth_state_info(p)) /\ UNCHANGED <<cvars, tvars>>
GetLegacyStep ==
  (\E p \in Procs : get_oauth_state_legacy(p)) /\ UNCHANGED <<cvars, tvars>>

ExpireStateStep ==
  (\E state \in StateTokens : ExpireOauthState(state))
  /\ UNCHANGED <<cvars, tvars>>

RedisFailState == RedisFail /\ UNCHANGED <<svars, cvars, tvars>>
RedisRecoverState == RedisRecover /\ UNCHANGED <<svars, cvars, tvars>>

InitConn ==
  /\ redisUp \in BOOLEAN
  /\ clientSet = FALSE
  /\ enabled = TRUE

NextState ==
  \/ StoreStep
  \/ GetRedisStep
  \/ GetInfoStep
  \/ GetLegacyStep
  \/ ExpireStateStep
  \/ RedisFailState
  \/ RedisRecoverState

vars == <<rconn, svars, cvars, tvars>>

\* the process after start-up: nothing connected, nothing stored
Init == InitConn /\ InitState /\ InitCreds /\ InitStore

SpecState == Init /\ [][NextState]_vars

SaveSessionStep ==
  /\ \E session_id \in SessionIds, credentials \in StoreCreds :
       /\ save_credentials_to_session_call(session_id, credentials)
       /\ sessNote' = [sessNote EXCEPT ![session_id] =
            Saved(credentials, IF RedisOk THEN "redis" ELSE "mem")]
  /\ UNCHANGED <<svars, userNote>>

SaveFileStep ==
  /\ \E user_google_email \in Users, credentials \in StoreCreds :
       /\ save_credentials_to_file_stored(user_google_email, credentials)
       /\ userNote' = [userNote EXCEPT
            ![<<credentials.client_id, user_google_email>>] =
              Saved(credentials, IF RedisOk THEN "redis" ELSE "dropped")]
  /\ UNCHANGED <<svars, sessNote>>

LoadSessionStep ==
  /\ \E session_id \in SessionIds : load_credentials_from_session_call(session_id)
  /\ UNCHANGED <<svars, sessNote, userNote>>

LoadFileStep ==
  /\ \E user_google_email \in Users, client_id \in OptTenant :
       load_credentials_from_file_stored(user_google_email, client_id)
  /\ UNCHANGED <<svars, sessNote, userNote>>

\* the notes say "deleted" for a delete that the durable store answered; an
\* unanswered delete returns False and is no removal
DeleteSessionStep ==
  /\ \E session_id \in SessionIds :
       /\ delete_session_credentials(session_id)
       /\ sessNote' = [sessNote EXCEPT ![session_id] =
            IF RedisOk THEN Gone(@, "deleted") ELSE @]
  /\ UNCHANGED <<svars, userNote>>

DeleteUserStep ==
  /\ \E user_email \in Users, client_id \in {"T1"} :
       /\ delete_user_credentials(user_email, client_id)
       /\ userNote' = [userNote EXCEPT ![<<client_id, user_email>>] =
            IF RedisOk THEN Gone(@, "deleted") ELSE @]
  /\ UNCHANGED <<svars, sessNote>>

\* the note of a key says "lapsed" when the entry that ran out is the
\* credential saved last under the key
Lapse(note, entry, age, ttl) ==
  IF RunsOut(entry, age, ttl) /\ note.tier = "redis" /\ note.gone = "no"
    THEN Gone(note, "lapsed")
    ELSE note

TtlTickStep ==
  /\ TtlTick
  /\ sessNote' = [s \in SessionIds |->
       Lapse(sessNote[s], rSess[s], sessAge[s], SessionTtl)]
  /\ userNote' = [k \in UserKeys |->
       Lapse(userNote[k], rUser[k], userAge[k], UserTtl)]
  /\ UNCHANGED svars

CorruptSessionStep ==
  /\ \E session_id \in SessionIds, damage \in Damaged :
       /\ CorruptSession(session_id, damage)
       /\ sessNote' = [sessNote EXCEPT ![session_id] = Gone(@, "garbled")]
  /\ UNCHANGED <<svars, userNote>>

CorruptUserStep ==
  /\ \E k \in UserKeys, damage \in Damaged :
       /\ CorruptUser(k, damage)
       /\ userNote' = [userNote EXCEPT ![k] = Gone(@, "garbled")]
  /\ UNCHANGED <<svars, sessNote>>

RedisFailStore == RedisFail /\ UNCHANGED <<svars, cvars, tvars>>
RedisRecoverStore == RedisRecover /\ UNCHANGED <<svars, cvars, tvars>>

NextStore ==
  \/ SaveSessionStep
  \/ SaveFileStep
  \/ LoadSessionStep
  \/ LoadFileStep
  \/ DeleteSessionStep
  \/ DeleteUserStep
  \/ TtlTickStep
  \/ CorruptSessionStep
  \/ CorruptUserStep
  \/ RedisFailStore
  \/ RedisRecoverStore

\* the save, load and delete operations on stored credentials, with the
\* lifetimes of the entries
SpecStore == Init /\ [][NextStore]_vars

\* the calls of get_credentials that the two threads make
RaceCalls ==
  {Call("ua", {"read"}, sid, "T1", TRUE, FALSE, {}) : sid \in OptSession}

\* the authorization callback, before the threads start
RaceCallbackStep ==
  /\ \A p \in RaceProcs : flow[p] = Idle
  /\ \E session_id \in OptSession :
       handle_auth_callback(session_id, "T1", "ua", "rt", {"read"})
  /\ UNCHANGED <<svars, tvars>>

RaceGetStep ==
  /\ \E p \in RaceProcs, call \in RaceCalls : get_credentials(p, call)
  /\ UNCHANGED <<svars, tvars>>

RaceGrantStep ==
  (\E p \in RaceProcs : refresh_grant(p)) /\ UNCHANGED <<svars, tvars>>

RaceRejectStep ==
  /\ \E p \in RaceProcs, outcome \in {"rejected", "error"} :
       get_credentials_refresh(p, outcome)
  /\ UNCHANGED <<svars, tvars>>

RaceAssignTokenStep ==
  (\E p \in RaceProcs : refresh_assign_token(p)) /\ UNCHANGED <<svars, tvars>>

RaceAssignExpiryStep ==
  (\E p \in RaceProcs : refresh_assign_expiry(p)) /\ UNCHANGED <<svars, tvars>>

RaceSaveFileStep ==
  (\E p \in RaceProcs : refresh_save_file(p)) /\ UNCHANGED <<svars, tvars>>

RaceSaveSessionStep ==
  (\E p \in RaceProcs : refresh_save_session(p)) /\ UNCHANGED <<svars, tvars>>

RaceTickStep == RaceTick /\ UNCHANGED <<svars, tvars>>
RedisFailRace == RedisFail /\ UNCHANGED <<svars, cvars, tvars>>
RedisRecoverRace == RedisRecover /\ UNCHANGED <<svars, cvars, tvars>>

NextRace ==
  \/ RaceCallbackStep
  \/ RaceGetStep
  \/ RaceGrantStep
  \/ RaceRejectStep
  \/ RaceAssignTokenStep
  \/ RaceAssignExpiryStep
  \/ RaceSaveFileStep
  \/ RaceSaveSessionStep
  \/ RaceTickStep
  \/ RedisFailRace
  \/ RedisRecoverRace

\* get_credentials called in two threads
SpecRace == Init /\ [][NextRace]_vars

\* Spec follows the credentials over the lifetime of access tokens; no
\* instant of an entry's TTL elapses in it, so every entry has age 0 and the
\* SETEX and EXPIRE of its operations leave the ages as they are.
\* every call of get_credentials the model makes
Calls ==
  {Call(u, req, sid, cid, csp, FALSE, {}) :
     u \in OptUser, req \in GrantSets, sid \in OptSession, cid \in AnyTenant,
     csp \in BOOLEAN}
  \cup {Call("ua", req, NoneStr, NoneStr, csp, TRUE, dir) :
     req \in GrantSets, csp \in BOOLEAN, dir \in Directories}

CallbackStep ==
  /\ \E session_id \in OptSession, client_id \in Tenants,
        user_google_email \in Users, refresh_token \in {NoneStr, "rt"},
        scopes \in GrantSets :
       handle_auth_callback(session_id, client_id, user_google_email,
                            refresh_token, scopes)
  /\ UNCHANGED <<svars, tvars>>

GetCredentialsStep ==
  /\ \E p \in FlowProcs, call \in Calls : get_credentials(p, call)
  /\ UNCHANGED <<svars, tvars>>

RefreshStep ==
  /\ \E p \in FlowProcs, outcome \in RefreshOutcomes :
       get_credentials_refresh(p, outcome)
  /\ UNCHANGED <<svars, tvars>>

SaveToFileStep ==
  /\ \E user_google_email \in Users, credentials \in UnkeyedCredentials :
       save_credentials_to_file_call(user_google_email, credentials)
  /\ UNCHANGED <<svars, tvars>>

LoadFromFileStep ==
  /\ \E user_google_email \in Users, client_id \in AnyTenant :
       load_credentials_from_file_call(user_google_email, client_id)
  /\ UNCHANGED <<svars, tvars>>

TickStep == Tick /\ UNCHANGED <<svars, tvars>>
RedisFailCreds == RedisFail /\ UNCHANGED <<svars, cvars, tvars>>
RedisRecoverCreds == RedisRecover /\ UNCHANGED <<svars, cvars, tvars>>

Next ==
  \/ CallbackStep
  \/ GetCredentialsStep
  \/ RefreshStep
  \/ SaveToFileStep
  \/ LoadFromFileStep
  \/ TickStep
  \/ RedisFailCreds
  \/ RedisRecoverCreds

Spec == Init /\ [][Next]_vars

\* SpecLive runs the operations that take more than one step, one request
\* flow at a time in each namespace, and lets a running call go on: the
\* thread of a call that has a next statement executes it (weak fairness).
LiveStoreStep ==
  /\ \E state \in StateTokens :
       store_oauth_state(state, "s1", "T1", SecretOf("T1"))
  /\ UNCHANGED <<cvars, tvars>>

LiveGetStateStep ==
  /\ \E p \in FlowProcs, state \in StateTokens : get_oauth_state_redis(p, state)
  /\ UNCHANGED <<cvars, tvars>>

\* the running get_oauth_state of p executes its next statement
GetStateContinues(p) ==
  /\ get_oauth_state_info(p) \/ get_oauth_state_legacy(p)
  /\ UNCHANGED <<cvars, tvars>>

\* the refresh call of the running get_credentials of p answers
RefreshReturns(p) ==
  /\ \E outcome \in RefreshOutcomes : get_credentials_refresh(p, outcome)
  /\ UNCHANGED <<svars, tvars>>

NextLive ==
  \/ LiveStoreStep
  \/ LiveGetStateStep
  \/ \E p \in FlowProcs : GetStateContinues(p)
  \/ RaceCallbackStep
  \/ GetCredentialsStep
  \/ \E p \in FlowProcs : RefreshReturns(p)
  \/ TickStep
  \/ RedisFailState
  \/ RedisRecoverState

Fairness ==
  \A p \in FlowProcs : WF_vars(GetStateContinues(p)) /\ WF_vars(RefreshReturns(p))

SpecLive == Init /\ [][NextLive]_vars /\ Fairness

\* SpecIdentity adds to Spec the calls of get_credentials that name the
\* identity "ub", to which no credential was ever issued.
OtherCalls ==
  {Call("ub", req, sid, cid, csp, FALSE, {}) :
     req \in GrantSets, sid \in OptSession, cid \in AnyTenant, csp \in BOOLEAN}

OtherGetStep ==
  /\ \E p \in FlowProcs, call \in OtherCalls : get_credentials(p, call)
  /\ UNCHANGED <<svars, tvars>>

NextIdentity ==
  \/ CallbackStep
  \/ GetCredentialsStep
  \/ OtherGetStep
  \/ RefreshStep
  \/ TickStep
  \/ RedisFailCreds
  \/ RedisRecoverCreds

SpecIdentity == Init /\ [][NextIdentity]_vars

\* ------------------------------------- get_authenticated_google_service
\* "if not user_google_email or '@' not in user_google_email" does not hold:
\* of what a tool passes (an address, nothing, a text without "@") only the
\* addresses are well-formed
WellFormedEmail(user_google_email) == user_google_email \in Users

\* the get_credentials call of get_authenticated_google_service
ServiceCall(user_google_email, required_scopes, client_id) ==
  Call(user_google_email, required_scopes, NoneStr, client_id, TRUE, FALSE, {})

\* How get_authenticated_google_service ends, unless get_credentials goes to
\* the refresh call first ("refresh"): it returns the service, or raises
\* GoogleAuthenticationError, or the Exception of a start_auth_flow that
\* failed leaves it; whether it called get_credentials (reads) and
\* start_auth_flow (starts). `built` says that build(...) succeeds.
get_authenticated_google_service_result(user_google_email, required_scopes, client_id, client_secret, configured, built) ==
  IF ~WellFormedEmail(user_google_email)
    THEN [out |-> "GoogleAuthenticationError", reads |-> FALSE, starts |-> FALSE]
  ELSE IF get_credentials_result(ServiceCall(user_google_email, required_scopes, client_id)).why = "refresh"
    THEN [out |-> "refresh", reads |-> TRUE, starts |-> FALSE]
  ELSE IF get_credentials_result(ServiceCall(user_google_email, required_scopes, client_id)).val # None
    THEN [out |-> IF built THEN "service" ELSE "GoogleAuthenticationError",
          reads |-> TRUE, starts |-> FALSE]
  ELSE [out |-> IF create_oauth_flow_raises(client_id, client_secret, configured)
                  THEN "Exception" ELSE "GoogleAuthenticationError",
        reads |-> TRUE, starts |-> TRUE]

\* get_authenticated_google_service, from its entry to its end or to the
\* refresh call of get_credentials
get_authenticated_google_service(p, user_google_email, required_scopes, client_id, client_secret, configured, built, state) ==
  /\ flow[p] = Idle
  /\ IF ~get_authenticated_google_service_result(user_google_email, required_scopes, client_id, client_secret, configured, built).reads
       THEN UNCHANGED <<rconn, cvars, svars>>
     ELSE IF ~get_authenticated_google_service_result(user_google_email, required_scopes, client_id, client_secret, configured, built).starts
       THEN /\ get_credentials(p, ServiceCall(user_google_email, required_scopes, client_id))
            /\ UNCHANGED svars
       ELSE /\ rSess' = get_credentials_result(ServiceCall(user_google_email, required_scopes, client_id)).rSess
            /\ mSess' = get_credentials_result(ServiceCall(user_google_email, required_scopes, client_id)).mSess
            /\ UNCHANGED <<now, nextTok, rUser, flow>>
            /\ start_auth_flow(state, NoneStr, client_id, client_secret, configured)

\* get_authenticated_google_service, from the answer of the refresh call to
\* its end: a refreshed credential is returned to it, after a failed refresh
\* it calls start_auth_flow. Without session id the credential came from the
\* identity key, whose tenant is the client_id the caller supplied.
get_authenticated_google_service_refresh(p, outcome, client_secret, configured, state) ==
  /\ flow[p].pc = "refresh"
  /\ IF outcome = "ok"
       THEN get_credentials_refresh(p, outcome) /\ UNCHANGED svars
       ELSE /\ flow' = [flow EXCEPT ![p] = Idle]
            /\ UNCHANGED <<now, nextTok, rUser, rSess, mSess>>
            /\ start_auth_flow(state, NoneStr, flow[p].cred.client_id, client_secret, configured)

NextService ==
  \/ CallbackStep
  \/ /\ \E p \in FlowProcs, user_google_email \in Users \cup {NoneStr, "no-at"}, required_scopes \in GrantSets, client_id \in OptTenant, client_secret \in OptSecret, configured \in BOOLEAN, built \in BOOLEAN, state \in StateTokens :
          get_authenticated_google_service(p, user_google_email, required_scopes, client_id, client_secret, configured, built, state)
     /\ UNCHANGED tvars
  \/ /\ \E p \in FlowProcs, outcome \in RefreshOutcomes, client_secret \in OptSecret, configured \in BOOLEAN, state \in StateTokens :
          get_authenticated_google_service_refresh(p, outcome, client_secret, configured, state)
     /\ UNCHANGED tvars
  \/ TickStep
  \/ RedisFailCreds
  \/ RedisRecoverCreds

SpecService == Init /\ [][NextService]_vars

\* ------------------------------------------------------------------ claims

\* C1: at-most-once consumption. Once a get_oauth_state(token) has returned
\* a record, every get_oauth_state(token) that starts later returns None
\* (a token is never stored twice here).
C1_AtMostOnce ==
  gret.late => gret.res = "none"

\* C2: under every interleaving of concurrent get_oauth_state calls for one
\* pending token, at most one call receives a record; every other gets None.
C2_OneWinner ==
  gret.rival => gret.res = "none"

\* C10 as stated: the first get_oauth_state(token) that returns after
\* store_oauth_state(token, s, c, k) returns exactly (s, c, k), whichever
\* tier held the record (read in the claim's favour: while the record's TTL
\* has not elapsed).
C10_RoundTripAlways ==
  (gret.first /\ ~lapsed[gret.state]) => gret.res = "same"

\* C10 amended: the first get_oauth_state(token) after the store returns
\* exactly the stored tuple when the record went to the in-memory fallback,
\* or when it went to the durable tier and the durable tier answers the get
\* before the TTL has elapsed; otherwise it returns None.
C10_RoundTrip ==
  gret.first =>
    IF tier[gret.state] = "mem" \/ gret.served
      THEN gret.res = "same"
      ELSE gret.res = "none"

\* C10 witness: a first resolution returned the stored tuple out of the
\* durable tier.
C10_Witness ==
  /\ gret.first
  /\ gret.res = "same"
  /\ tier[gret.state] = "redis"
  /\ gret.served

\* the multi-tenant calls that name a tenant and a user
TenantCalls == {call \in Calls : ~call.single /\ Truthy(call.cid) /\ Truthy(call.user)}

\* C3: tenant isolation. get_credentials called with tenant client id T2 and
\* user U never returns a credential that is stored under the identity key
\* of another tenant T1 for the same U.
C3_TenantIsolation ==
  \A call \in TenantCalls : \A T1 \in Tenants \ {call.cid} :
    LET r == get_credentials_result(call)
    IN (r.val # None /\ rUser[<<T1, call.user>>] # None)
         => CredsFromJson(rUser[<<T1, call.user>>]) # r.val

\* C4: the identity-scoped namespace is keyed by tenant. A load without
\* client_id returns None and reads no store, a save of a credential without
\* client_id writes nothing (no entry ever exists under a key without
\* tenant), and a get_credentials call without tenant client id neither
\* reads the identity-scoped namespace nor returns a credential found there.
C4_TenantInKey ==
  /\ \A u \in Users : rUser[<<NoneStr, u>>] = None
  /\ \A u \in OptUser :
       ~FileLoadReads(NoneStr) /\ load_credentials_from_file(rUser, u, NoneStr) = None
  /\ \A credentials \in UnkeyedCredentials, u \in Users :
       save_credentials_to_file(u, credentials) = rUser
  /\ \A call \in Calls : ~Truthy(call.cid) =>
       /\ get_credentials_result(call).src # "user"
       /\ get_credentials_result(call).ureads = 0

\* C4 witness: the durable tier answers and holds a credential of user ua
\* under tenant T1; the call that names ua but no tenant, and no session,
\* finds nothing.
C4_Witness ==
  /\ RedisOk
  /\ rUser[<<"T1", "ua">>] # None
  /\ valid(CredsFromJson(rUser[<<"T1", "ua">>]))
  /\ get_credentials_result(
       Call("ua", {"read"}, NoneStr, NoneStr, TRUE, FALSE, {})).why = "not_found"
  /\ get_credentials_result(
       Call("ua", {"read"}, NoneStr, "T1", TRUE, FALSE, {})).why = "valid"

\* C5: a found credential whose stored expiry is in the past and which has
\* no refresh token is never returned, in any mode and from whichever store:
\* get_credentials returns None and does not go on to the provider's refresh.
C5_ExpiredNeverReturned ==
  \A call \in Calls :
    LET r == get_credentials_result(call)
    IN (r.found # None /\ expired(r.found) /\ ~Truthy(r.found.refresh_token))
         => (r.val = None /\ r.why # "refresh")

\* C6: a found credential passes on to the validity/refresh step if and only
\* if every required scope is among its granted scopes; with a required scope
\* missing get_credentials returns None, also for an unexpired token.
C6_ScopeCheck ==
  \A call \in Calls :
    LET r == get_credentials_result(call)
    IN r.cred # None =>
         /\ (r.why # "scopes") <=> (call.req \subseteq r.cred.scopes)
         /\ (r.why = "scopes") => r.val = None

\* C6 witness: the credential stored for tenant T1 and user ua grants {read}
\* and is unexpired; the call requiring {read, write} returns None on the
\* scope check, the call requiring {read} returns the credential.
C6_Witness ==
  /\ RedisOk
  /\ rUser[<<"T1", "ua">>] # None
  /\ CredsFromJson(rUser[<<"T1", "ua">>]).scopes = {"read"}
  /\ valid(CredsFromJson(rUser[<<"T1", "ua">>]))
  /\ LET r == get_credentials_result(
                Call("ua", {"read", "write"}, NoneStr, "T1", TRUE, FALSE, {}))
     IN r.why = "scopes" /\ r.val = None /\ r.src = "user"
  /\ get_credentials_result(
       Call("ua", {"read"}, NoneStr, "T1", TRUE, FALSE, {})).val # None

\* C7: when the provider's refresh fails with a failure other than
\* RefreshError, get_credentials returns an outcome the caller can tell from
\* NeedsAuthorization (None).
C7_DistinctRefreshFailed ==
  \A p \in FlowProcs : flow[p].pc = "refresh" =>
    get_credentials_refresh_result(flow[p], "error").val # None

\* C8: when the provider rejects the refresh (RefreshError) get_credentials
\* returns None, and one execution of get_credentials invokes the provider's
\* refresh at most once: whatever the answer, the call returns after it.
C8_RefreshOnce ==
  \A p \in FlowProcs :
    /\ flow[p].pc \in {"idle", "refresh"}
    /\ flow[p].pc = "refresh" =>
         /\ flow[p].refreshes = 1
         /\ get_credentials_refresh_result(flow[p], "rejected").val = None
         /\ \A outcome \in RefreshOutcomes :
              get_credentials_refresh_result(flow[p], outcome).next = Idle

\* C8 witness: a get_credentials call has invoked the provider's refresh for
\* an expired credential with a refresh token.
C8_Witness ==
  \E p \in FlowProcs :
    /\ flow[p].pc = "refresh"
    /\ flow[p].refreshes = 1
    /\ expired(flow[p].cred)
    /\ Truthy(flow[p].cred.refresh_token)

\* the step in which the get_credentials call of p returns after a
\* successful refresh
RefreshSucceeds(p) ==
  /\ flow[p].pc = "refresh"
  /\ flow'[p] = Idle
  /\ nextTok' = nextTok + 1

\* C9 as stated: when get_credentials returns after a successful refresh, a
\* load of the identity key (user known) and a load of the session key
\* (session id supplied) each return the refreshed credential.
C9_RefreshPersistedAlways ==
  [][\A p \in FlowProcs : IF ~RefreshSucceeds(p) THEN TRUE ELSE
       \A f \in {flow[p]} :
       \A credentials \in {get_credentials_refresh_result(f, "ok").val} :
          /\ Truthy(f.user) =>
               (load_credentials_from_file(rUser, f.user, credentials.client_id))'
                 = credentials
          /\ Truthy(f.sid) =>
               (load_credentials_from_session(rSess, mSess, f.sid))'
                 = credentials]_vars

\* C9 amended: when get_credentials returns after a successful refresh, a
\* load of the session key (session id supplied) returns the refreshed
\* credential, held in the durable tier if it answered and in the in-memory
\* cache otherwise; a load of the identity key (user known) returns the
\* refreshed credential if the durable tier answered and the credential has a
\* client_id, and otherwise the identity-scoped namespace is left as it was.
C9_RefreshPersisted ==
  [][\A p \in FlowProcs : IF ~RefreshSucceeds(p) THEN TRUE ELSE
       \A f \in {flow[p]} :
       \A credentials \in {get_credentials_refresh_result(f, "ok").val} :
          /\ Truthy(f.sid) =>
               /\ (load_credentials_from_session(rSess, mSess, f.sid))'
                    = credentials
               /\ IF RedisOk THEN rSess'[f.sid] = CredsJson(credentials)
                             ELSE mSess'[f.sid] = credentials
          /\ Truthy(f.user) =>
               IF RedisOk /\ Truthy(credentials.client_id)
                 THEN (load_credentials_from_file(rUser, f.user,
                                                  credentials.client_id))'
                        = credentials
                 ELSE rUser' = rUser]_vars

\* C9 witness: a refreshed credential, newer than the first one issued, is
\* held under an identity key and under a session key at once.
C9_Witness ==
  \E k \in UserKeys, s \in SessionIds :
    /\ rUser[k] # None
    /\ CredsFromJson(rUser[k]).token > 1
    /\ load_credentials_from_session(rSess, mSess, s) = CredsFromJson(rUser[k])
    /\ \A p \in FlowProcs : flow[p] = Idle

\* ------------------------------------------------ claims on stored credentials
\* the loaded value is a credential with the access token, refresh token,
\* scopes and expiry of the one saved
SameCredential(loaded, saved) ==
  /\ loaded # None
  /\ loaded.token = saved.token
  /\ loaded.refresh_token = saved.refresh_token
  /\ loaded.scopes = saved.scopes
  /\ loaded.expiry = saved.expiry

\* C11 as stated: a credential saved under a session key or under a (tenant,
\* identity) key, whose entry has neither run out of lifetime nor been
\* deleted or damaged since, is returned by a load of the same key with the
\* same access token, refresh token, scopes and expiry.
C11_RoundTripAlways ==
  /\ \A s \in SessionIds :
       (sessNote[s].saved # None /\ sessNote[s].gone = "no") =>
         SameCredential(load_credentials_from_session(rSess, mSess, s),
                        sessNote[s].saved)
  /\ \A k \in UserKeys :
       (userNote[k].saved # None /\ userNote[k].gone = "no") =>
         SameCredential(load_credentials_from_file(rUser, k[2], k[1]),
                        userNote[k].saved)

\* C11 amended: the round trip holds when the durable store answers the save
\* and the load, and, for a session key only, when it answers neither: a
\* credential saved under a (tenant, identity) key while the durable store
\* is unreachable is not kept at all.
C11_RoundTrip ==
  /\ \A s \in SessionIds :
       (/\ sessNote[s].saved # None
        /\ sessNote[s].gone = "no"
        /\ \/ sessNote[s].tier = "redis" /\ RedisOk
           \/ sessNote[s].tier = "mem" /\ ~RedisOk) =>
         SameCredential(load_credentials_from_session(rSess, mSess, s),
                        sessNote[s].saved)
  /\ \A k \in UserKeys :
       (/\ userNote[k].saved # None
        /\ userNote[k].gone = "no"
        /\ userNote[k].tier = "redis"
        /\ RedisOk) =>
         SameCredential(load_credentials_from_file(rUser, k[2], k[1]),
                        userNote[k].saved)

\* C11 witness: a credential with an expiry and a refresh token sits under a
\* session key and another under an identity key, both saved through the
\* durable store, the identity entry one instant old, and both load back.
C11_Witness ==
  \E s \in SessionIds, k \in UserKeys :
    /\ RedisOk
    /\ sessNote[s].tier = "redis" /\ sessNote[s].gone = "no"
    /\ sessNote[s].saved.expiry # {}
    /\ userNote[k].tier = "redis" /\ userNote[k].gone = "no"
    /\ userAge[k] >= 1
    /\ SameCredential(load_credentials_from_session(rSess, mSess, s),
                      sessNote[s].saved)
    /\ SameCredential(load_credentials_from_file(rUser, k[2], k[1]),
                      userNote[k].saved)

\* C12: while the durable store is unavailable, a load of a session key
\* returns the credential saved under it while the store was unavailable, a
\* load of an identity key returns None whatever the durable store holds,
\* and save_credentials_to_file leaves the in-memory cache as it was.
C12_FallbackSessionOnly ==
  /\ [](~RedisOk =>
          /\ \A s \in SessionIds :
               sessNote[s].tier = "mem" =>
                 load_credentials_from_session(rSess, mSess, s)
                   = sessNote[s].saved
          /\ \A u \in Users, client_id \in AnyTenant :
               load_credentials_from_file(rUser, u, client_id) = None)
  /\ [][\A u \in Users, credentials \in StoreCreds :
          save_credentials_to_file_stored(u, credentials) => mSess' = mSess]_vars

\* C12 witness: the durable store is unavailable and holds an entry under an
\* identity key; a credential was saved under a session key meanwhile and a
\* load returns it, while the identity load returns None.
C12_Witness ==
  \E s \in SessionIds, k \in UserKeys :
    /\ ~RedisOk
    /\ rUser[k] # None /\ Decodable(rUser[k])
    /\ sessNote[s].tier = "mem"
    /\ load_credentials_from_session(rSess, mSess, s) = sessNote[s].saved
    /\ load_credentials_from_file(rUser, k[2], k[1]) = None

\* C13: a load of a session key for which the durable store answered never
\* returns a value taken from the in-memory cache: when the store answers
\* and holds no readable entry under the key, the load returns None.
C13_MemoryOnlyWhenUnreachable ==
  \A s \in SessionIds :
    (RedisOk /\ (rSess[s] = None \/ rSess[s] = Garbled)) =>
      load_credentials_from_session(rSess, mSess, s) = None

C16_LookupOrder ==
  \A call \in Calls : ~call.single =>
    \A r \in {get_credentials_result(call)} :
      /\ (/\ Truthy(call.sid)
          /\ load_credentials_from_session(rSess, mSess, call.sid) # None) =>
            /\ r.cred = load_credentials_from_session(rSess, mSess, call.sid)
            /\ r.src \in {"session_redis", "session_cache"}
            /\ r.ureads = 0
      /\ r.ureads > 0 =>
            /\ \/ ~Truthy(call.sid)
               \/ load_credentials_from_session(rSess, mSess, call.sid) = None
            /\ Truthy(call.user)
            /\ Truthy(call.cid)
      /\ r.src = "user" => r.ureads > 0

\* C16 witness: a session key and an identity key both hold a credential, the
\* two differ, and a call naming both examines the session one and does not
\* read the identity key.
C16_Witness ==
  \E call \in Calls :
    /\ ~call.single
    /\ Truthy(call.sid) /\ Truthy(call.user) /\ Truthy(call.cid)
    /\ load_credentials_from_session(rSess, mSess, call.sid) # None
    /\ load_credentials_from_file(rUser, call.user, call.cid) # None
    /\ load_credentials_from_file(rUser, call.user, call.cid)
         # load_credentials_from_session(rSess, mSess, call.sid)
    /\ get_credentials_result(call).src = "session_redis"
    /\ get_credentials_result(call).ureads = 0

\* C17: when a multi-tenant call of get_credentials takes its credential from
\* an identity key and a session id was given, the stores it leaves behind
\* hold that credential under the session id, whatever the scope and
\* validity checks decide: a session load made next returns it.
C17_CachePromotion ==
  \A call \in Calls : ~call.single =>
    \A r \in {get_credentials_result(call)} :
      (r.src = "user" /\ Truthy(call.sid)) =>
        /\ r.cred # None
        /\ load_credentials_from_session(r.rSess, r.mSess, call.sid) = r.cred

\* C17 witness: a call with a session id finds its credential under the
\* identity key only, the credential lacks a required scope, and the stores
\* after the call hold it under the session id all the same.
C17_Witness ==
  \E call \in Calls :
    /\ ~call.single
    /\ Truthy(call.sid)
    /\ load_credentials_from_session(rSess, mSess, call.sid) = None
    /\ get_credentials_result(call).src = "user"
    /\ get_credentials_result(call).why = "scopes"
    /\ load_credentials_from_session(get_credentials_result(call).rSess,
                                     get_credentials_result(call).mSess,
                                     call.sid)
         = get_credentials_result(call).cred

\* C18: after a delete_session_credentials(s) or a delete_user_credentials(u, t)
\* that the durable store answered, and until a credential is saved again
\* under the key, a load of the key returns no credential.
C18_RemovedStaysRemoved ==
  /\ \A s \in SessionIds :
       sessNote[s].gone = "deleted" =>
         load_credentials_from_session(rSess, mSess, s) = None
  /\ \A k \in UserKeys :
       userNote[k].gone = "deleted" =>
         load_credentials_from_file(rUser, k[2], k[1]) = None

\* C19: a load that meets an entry whose text cannot be deserialized returns
\* no credential and leaves the durable store without that entry.
C19_CorruptEntryDeleted ==
  [][/\ \A s \in SessionIds :
          (/\ load_credentials_from_session_call(s)
           /\ UNCHANGED <<sessNote, userNote>>
           /\ RedisOk
           /\ rSess[s] \in Damaged) =>
            /\ load_credentials_from_session(rSess, mSess, s) = None
            /\ rSess'[s] = None
     /\ \A u \in Users, client_id \in OptTenant :
          (/\ load_credentials_from_file_stored(u, client_id)
           /\ UNCHANGED <<sessNote, userNote>>
           /\ RedisOk /\ FileLoadReads(client_id)
           /\ rUser[<<client_id, u>>] \in Damaged) =>
            /\ load_credentials_from_file(rUser, u, client_id) = None
            /\ rUser'[<<client_id, u>>] = None]_vars

\* C20: no load of a stored record raises: whatever text the durable store
\* holds under a session key or an identity key, and whether or not the
\* store answers, load_credentials_from_session and load_credentials_from_file
\* (which get_credentials calls outside any try) return a credential or None.
C20_FailSoft ==
  /\ \A s \in SessionIds :
       load_credentials_from_session(rSess, mSess, s)
         \notin {Raise(e) : e \in {"JSONDecodeError", "KeyError", "AttributeError"}}
  /\ \A k \in UserKeys :
       load_credentials_from_file(rUser, k[2], k[1])
         \notin {Raise(e) : e \in {"JSONDecodeError", "KeyError", "AttributeError"}}

\* ------------------------------------------------- claims on the connection
\* C21: once a connection attempt of the RedisStateStore instance has failed
\* (enabled is False), every access to the client yields None and no
\* operation gets an answer from the durable store.
C21_DisabledStays ==
  ~enabled => (~client /\ ~RedisOk)

\* C22: once the lifetime of a pending authorization record has passed, no
\* tier holds the record any more, whichever tier took it, so that
\* get_oauth_state for its token finds nothing and returns None.
C22_RecordExpires ==
  \A state \in overdue :
    /\ rOauth[state] = None
    /\ infoMap[state] = None
    /\ ~Truthy(legacyMap[state])

\* ------------------------------------------------ claims on concurrent calls
\* C23: once two calls of get_credentials for the same user and session id
\* have both refreshed and returned, an identity entry that both have written
\* holds one of the two refreshed credentials as a whole, and so does the
\* Redis session entry when both have written it: never the expired
\* credential and never the token of one with the expiry of the other.
C23_LastWriterWins ==
  (/\ flow["p1"].pc = "done" /\ flow["p2"].pc = "done"
   /\ flow["p1"].user = flow["p2"].user
   /\ flow["p1"].sid = flow["p2"].sid) =>
    /\ (flow["p1"].wroteFile /\ flow["p2"].wroteFile) =>
         rUser[<<"T1", flow["p1"].user>>]
           \in {CredsJson(flow["p1"].grant), CredsJson(flow["p2"].grant)}
    /\ (flow["p1"].wroteSess /\ flow["p2"].wroteSess) =>
         rSess[flow["p1"].sid]
           \in {CredsJson(flow["p1"].grant), CredsJson(flow["p2"].grant)}

\* ------------------------------------------------ claims on the callback
\* the calls of get_credentials that name the session, and the call that
\* names the identity and the tenant without a session
SessionCalls(session_id) ==
  {call \in Calls : ~call.single /\ call.sid = session_id}

IdentityCalls(user_google_email, client_id) ==
  {call \in Calls : /\ ~call.single /\ call.sid = NoneStr
                    /\ call.user = user_google_email /\ call.cid = client_id}

\* C24 as stated: when handle_auth_callback completes for identity U with a
\* credential of tenant T, a get_credentials that follows with the session id
\* given to the callback, or with (U, T), finds that credential.
C24_CallbackPersistsAlways ==
  [][\A session_id \in OptSession, client_id \in Tenants, user_google_email \in Users,
        refresh_token \in {NoneStr, "rt"}, scopes \in GrantSets :
       \A credentials \in {Credentials(nextTok, refresh_token, client_id, scopes,
                                       {now + TokenLife})} :
         handle_auth_callback(session_id, client_id, user_google_email,
                              refresh_token, scopes)
         => /\ Truthy(session_id) =>
                 \A call \in SessionCalls(session_id) :
                    (get_credentials_result(call).found)' = credentials
            /\ \A call \in IdentityCalls(user_google_email, client_id) :
                    (get_credentials_result(call).found)' = credentials]_vars

\* C24 amended: when handle_auth_callback completes for identity U with a
\* credential of tenant T and a session id is given, the credential is stored
\* under the session key (in the durable tier if it answers, in the in-memory
\* cache otherwise) and a get_credentials that follows with that session id
\* finds it; if the durable tier answers, the credential is stored under the
\* identity key (T, U) and a get_credentials that follows with (U, T) finds
\* it; if it does not answer, the identity-scoped namespace is left as it was.
C24_CallbackPersists ==
  [][\A session_id \in OptSession, client_id \in Tenants, user_google_email \in Users,
        refresh_token \in {NoneStr, "rt"}, scopes \in GrantSets :
       \A credentials \in {Credentials(nextTok, refresh_token, client_id, scopes,
                                       {now + TokenLife})} :
         handle_auth_callback(session_id, client_id, user_google_email,
                              refresh_token, scopes)
         => /\ Truthy(session_id) =>
                 /\ IF RedisOk THEN rSess'[session_id] = CredsJson(credentials)
                               ELSE mSess'[session_id] = credentials
                 /\ \A call \in SessionCalls(session_id) :
                      (get_credentials_result(call).found)' = credentials
            /\ IF RedisOk
                 THEN /\ rUser'[<<client_id, user_google_email>>]
                           = CredsJson(credentials)
                      /\ \A call \in IdentityCalls(user_google_email, client_id) :
                           (get_credentials_result(call).found)' = credentials
                 ELSE rUser' = rUser]_vars

\* C24 witness: the callback's credential is held under a session key and
\* under the identity key of its tenant, and a call with the session id and a
\* call with the identity and the tenant both find it.
C24_Witness ==
  \E s \in SessionIds, k \in UserKeys :
    /\ rSess[s] # None
    /\ rUser[k] = rSess[s]
    /\ k[1] \in Tenants
    /\ \A call \in SessionCalls(s) \cup IdentityCalls(k[2], k[1]) :
         get_credentials_result(call).found = CredsFromJson(rUser[k])
    /\ nextTok = 2

\* ------------------------------------------------ claims on get_credentials
\* the calls made in single-user mode, with every identity, session id and
\* tenant a caller can supply
SingleUserCalls ==
  {Call(u, req, sid, cid, csp, TRUE, dir) :
     u \in OptUser, req \in GrantSets, sid \in OptSession, cid \in AnyTenant,
     csp \in BOOLEAN, dir \in Directories}

Holds(entry) == entry # None /\ entry \notin Damaged

\* every key of (rs, ms, ru) holds a credential if it holds one now
KeysKept(rs, ms, ru) ==
  /\ \A s \in SessionIds : /\ Holds(rSess[s]) => Holds(rs[s])
                           /\ Holds(mSess[s]) => Holds(ms[s])
  /\ \A k \in UserKeys : Holds(rUser[k]) => Holds(ru[k])

\* C26: get_credentials never removes a stored credential. Whatever call is
\* made and whatever the refresh call answers, every session-scoped and
\* identity-scoped key that holds a credential before holds one after the
\* lookup and after the refresh branch, and every step of get_credentials
\* keeps the keys so.
C26_NeverRemoves ==
  /\ [](/\ \A call \in Calls :
             KeysKept(get_credentials_result(call).rSess,
                      get_credentials_result(call).mSess, rUser)
        /\ \A p \in FlowProcs, outcome \in RefreshOutcomes :
             flow[p].pc = "refresh" =>
               KeysKept(get_credentials_refresh_result(flow[p], outcome).rSess,
                        get_credentials_refresh_result(flow[p], outcome).mSess,
                        get_credentials_refresh_result(flow[p], outcome).rUser))
  /\ [][(\/ \E p \in FlowProcs, call \in Calls : get_credentials(p, call)
         \/ \E p \in FlowProcs, outcome \in RefreshOutcomes :
              get_credentials_refresh(p, outcome))
        => KeysKept(rSess', mSess', rUser')]_vars

\* C26 witness: a get_credentials call has found an expired credential under
\* its session key and stands at the refresh call, the in-memory cache, the
\* session key and the identity key of the credential each hold a credential.
C26_Witness ==
  \E p \in FlowProcs, s \in SessionIds :
    /\ flow[p].pc = "refresh" /\ flow[p].sid = s
    /\ Holds(rSess[s]) /\ Holds(mSess[s])
    /\ Holds(rUser[<<flow[p].cred.client_id, "ua">>])

\* C27: every operation terminates. A get_oauth_state and a get_credentials
\* that have started return, whether or not the durable store answers; a
\* get_credentials makes at most one refresh call to the provider, and a
\* get_oauth_state passes each of its three lookups at most once, in order.
C27_Terminates ==
  /\ \A p \in FlowProcs : (gpc[p] # "idle") ~> (gpc[p] = "idle")
  /\ \A p \in FlowProcs : (flow[p] # Idle) ~> (flow[p] = Idle)
  /\ [](\A p \in FlowProcs : flow[p] # Idle => flow[p].refreshes = 1)
  /\ [][\A p \in FlowProcs :
          /\ gpc[p] = "info" => gpc'[p] \in {"info", "legacy", "idle"}
          /\ gpc[p] = "legacy" => gpc'[p] \in {"legacy", "idle"}]_vars

\* C27 witness: the durable store is unreachable while a get_oauth_state has
\* passed the Redis lookup and a get_credentials stands at the refresh call.
C27_Witness ==
  /\ ~redisUp
  /\ \E p \in FlowProcs : gpc[p] = "legacy"
  /\ \E p \in FlowProcs : flow[p].pc = "refresh"

\* the call finds a credential that is unexpired and has every required scope
FindsValid(call) ==
  /\ get_credentials_result(call).found # None
  /\ valid(get_credentials_result(call).found)
  /\ ScopesOk(get_credentials_result(call).found, call.req)

\* C28: a found, unexpired credential with sufficient scopes is returned
\* unchanged. The call returns the credential it found without going to the
\* refresh call; the only entries of the session-scoped namespace that differ
\* after it are those of the supplied session id, written with that
\* credential when it came from the identity key; the identity-scoped
\* namespace, the provider's token counter and the request flows are left as
\* they were.
C28_ValidReturnedUnchanged ==
  /\ [](\A call \in Calls : FindsValid(call) =>
          \A r \in {get_credentials_result(call)} :
            /\ r.why = "valid"
            /\ r.val = r.found
            /\ \A s \in SessionIds :
                 /\ r.rSess[s] # rSess[s] =>
                      /\ s = call.sid /\ r.src = "user"
                      /\ r.rSess[s] = CredsJson(r.val)
                 /\ r.mSess[s] # mSess[s] =>
                      /\ s = call.sid /\ r.src = "user"
                      /\ r.mSess[s] = r.val)
  /\ [][\/ rUser' = rUser /\ nextTok' = nextTok /\ flow' = flow
        \/ ~ \E p \in FlowProcs, call \in Calls :
               FindsValid(call) /\ get_credentials(p, call)]_vars

\* C28 witness: an unexpired credential with the required scope sits under
\* the identity key only; the call with a session id returns it and leaves it
\* under the session key, the call without one writes nothing.
C28_Witness ==
  \E call \in Calls :
    /\ ~call.single /\ Truthy(call.sid) /\ FindsValid(call)
    /\ get_credentials_result(call).src = "user"
    /\ get_credentials_result(call).val = CredsFromJson(rUser[<<call.cid, call.user>>])
    /\ get_credentials_result(call).rSess[call.sid] = rUser[<<call.cid, call.user>>]
    /\ rSess[call.sid] = None
    /\ get_credentials_result([call EXCEPT !.sid = NoneStr]).rSess = rSess
    /\ get_credentials_result([call EXCEPT !.sid = NoneStr]).val
         = get_credentials_result(call).val

\* the call finds a credential that lacks a required scope
LacksScope(call) ==
  /\ get_credentials_result(call).cred # None
  /\ ~ScopesOk(get_credentials_result(call).cred, call.req)

\* C29: the scope check precedes the refresh decision. A call that finds a
\* credential lacking a required scope never goes to the provider's refresh,
\* also when the credential is expired and has a refresh token; whatever it
\* writes is the credential as found, with the scopes it had; a call stands
\* at the refresh only with a credential that has every required scope, and
\* a refresh leaves the scopes of the credential as they were.
C29_ScopeBeforeRefresh ==
  /\ [](/\ \A call \in Calls : LacksScope(call) =>
             \A r \in {get_credentials_result(call)} :
               /\ r.why # "refresh" /\ r.val = None
               /\ \A s \in SessionIds :
                    /\ r.rSess[s] \in {rSess[s], CredsJson(r.cred)}
                    /\ r.mSess[s] \in {mSess[s], r.cred}
        /\ \A p \in FlowProcs : flow[p] # Idle =>
             Refreshed(flow[p].cred).scopes = flow[p].cred.scopes)
  /\ [][\/ flow' = flow
        \/ \A p \in FlowProcs, call \in Calls :
             (get_credentials(p, call) /\ flow'[p] # Idle) =>
               /\ ScopesOk(flow'[p].cred, call.req)
               /\ ~LacksScope(call)]_vars
  /\ [][\/ rUser' = rUser /\ nextTok' = nextTok /\ flow' = flow
        \/ ~ \E p \in FlowProcs, call \in Calls :
               LacksScope(call) /\ get_credentials(p, call)]_vars

\* C29 witness: a call finds an expired credential with a refresh token and
\* is given the client secrets path, so that a refresh would be attempted,
\* but the credential lacks a required scope and the call ends on the scope
\* check.
C29_Witness ==
  \E call \in Calls :
    /\ ~call.single /\ call.csp /\ LacksScope(call)
    /\ expired(get_credentials_result(call).cred)
    /\ Truthy(get_credentials_result(call).cred.refresh_token)
    /\ get_credentials_result(call).why = "scopes"
    /\ Decide(get_credentials_result(call).cred,
              [call EXCEPT !.req = get_credentials_result(call).cred.scopes])
         = "refresh"

\* C30 as stated: a call that returns None because the credential it found
\* lacks a required scope leaves the session-scoped namespace as it was.
C30_ScopeFailNoSessionWrite ==
  \A call \in Calls :
    get_credentials_result(call).why = "scopes" =>
      /\ get_credentials_result(call).rSess = rSess
      /\ get_credentials_result(call).mSess = mSess

\* C30 amended: a call that returns None because the credential it found
\* lacks a required scope writes nothing but the cache promotion. If the
\* credential came from the identity key and a session id was supplied, the
\* credential is written under that session id as it was found (to the
\* durable tier if it answers, to the in-memory cache otherwise) and no other
\* session entry changes; in every other case the session-scoped namespace is
\* left as it was.
C30_ScopeFailPromotionOnly ==
  \A call \in Calls :
    \A r \in {get_credentials_result(call)} :
      r.why = "scopes" =>
        IF r.src = "user" /\ Truthy(call.sid)
          THEN IF RedisOk
                 THEN /\ r.rSess = [rSess EXCEPT ![call.sid] = CredsJson(r.cred)]
                      /\ r.mSess = mSess
                 ELSE /\ r.rSess = rSess
                      /\ r.mSess = [mSess EXCEPT ![call.sid] = r.cred]
          ELSE r.rSess = rSess /\ r.mSess = mSess

\* C30 witness: the session key is empty, the identity key holds a credential
\* that lacks a required scope; the call with the session id returns None on
\* the scope check and leaves the credential under the session key, the same
\* call without session id leaves the session-scoped namespace as it was.
C30_Witness ==
  \E call \in Calls :
    /\ ~call.single /\ Truthy(call.sid) /\ RedisOk
    /\ rSess[call.sid] = None /\ mSess[call.sid] = None
    /\ get_credentials_result(call).why = "scopes"
    /\ get_credentials_result(call).val = None
    /\ get_credentials_result(call).rSess[call.sid] = rUser[<<call.cid, call.user>>]
    /\ get_credentials_result([call EXCEPT !.sid = NoneStr]).why = "scopes"
    /\ get_credentials_result([call EXCEPT !.sid = NoneStr]).rSess = rSess

\* ------------------------------------------------ claims on identity binding
\* C31: identity binding. Every credential of the model was issued to "ua"
\* and stored for "ua"; a call of get_credentials that names the identity
\* "ub" finds no credential, whatever session id and tenant it supplies, and
\* no such call stands at the refresh.
C31_IdentityBinding ==
  /\ \A call \in OtherCalls : get_credentials_result(call).found = None
  /\ \A p \in FlowProcs : flow[p] # Idle => flow[p].user # "ub"

\* C32: key integrity of the identity-scoped namespace. The provider issues
\* credentials to "ua" only; every credential stored under a key (T, U) has
\* U = "ua" and the client_id T.
C32_KeyIntegrity ==
  \A k \in UserKeys :
    (rUser[k] # None /\ Decodable(rUser[k])) =>
      /\ k[2] \in Users
      /\ CredsFromJson(rUser[k]).client_id = k[1]

\* ------------------------------------------------ claims on the two tiers
\* C33: read-your-writes for the session namespace. Whenever a load of a
\* session key, whose entry has neither run out of lifetime nor been deleted
\* or damaged since the last save, returns a credential, it is the credential
\* saved last under that session id.
C33_ReadYourWrites ==
  \A s \in SessionIds :
    \A loaded \in {load_credentials_from_session(rSess, mSess, s)} :
      (sessNote[s].saved # None /\ sessNote[s].gone = "no" /\ loaded # None) =>
        SameCredential(loaded, sessNote[s].saved)

\* ------------------------------------------------ claims on pending records
\* the correlation tokens a get_oauth_state can resolve
Resolvable ==
  {t \in StateTokens :
     rOauth[t] # None \/ infoMap[t] # None \/ Truthy(legacyMap[t])}

\* C34: a start_auth_flow that raises because no OAuth client configuration
\* can be built leaves no pending authorization record behind: the same
\* tokens are resolvable after the call as before it.
C34_FailedStartLeavesNothing ==
  [][\A state \in StateTokens, session_id \in OptSession, client_id \in OptTenant,
        client_secret \in OptSecret, configured \in BOOLEAN :
       (/\ create_oauth_flow_raises(client_id, client_secret, configured)
        /\ start_auth_flow(state, session_id, client_id, client_secret, configured))
       => Resolvable' = Resolvable]_vars

\* the call, made without client_secrets_path, finds an expired credential
\* that has a refresh token
ExpiredNoPath(call) ==
  /\ ~call.csp
  /\ get_credentials_result(call).cred # None
  /\ expired(get_credentials_result(call).cred)
  /\ Truthy(get_credentials_result(call).cred.refresh_token)

\* C35 as stated: a refresh is attempted only with a client secrets path; a
\* call without one that finds an expired credential with a refresh token
\* returns None, does not go to the refresh and writes to no store.
C35_NoPathNoWrite ==
  \A call \in Calls :
    \A r \in {get_credentials_result(call)} :
      /\ r.why = "refresh" => call.csp
      /\ ExpiredNoPath(call) =>
           /\ r.val = None /\ r.why \in {"scopes", "no_secrets_path"}
           /\ r.rSess = rSess /\ r.mSess = mSess

\* C35 amended: a refresh is attempted only with a client secrets path; a
\* call without one that finds an expired credential with a refresh token
\* returns None and does not go to the refresh; it leaves the identity-scoped
\* namespace as it was and writes nothing to the session-scoped namespace but
\* the cache promotion: the credential as found, under the supplied session
\* id, when it came from the identity key.
C35_NoPathNoRefresh ==
  /\ [](\A call \in Calls :
          \A r \in {get_credentials_result(call)} :
            /\ r.why = "refresh" => call.csp
            /\ ExpiredNoPath(call) =>
                 /\ r.val = None /\ r.why \in {"scopes", "no_secrets_path"}
                 /\ IF r.src = "user" /\ Truthy(call.sid)
                      THEN /\ r.rSess \in {rSess, [rSess EXCEPT ![call.sid] = CredsJson(r.cred)]}
                           /\ r.mSess \in {mSess, [mSess EXCEPT ![call.sid] = r.cred]}
                           /\ load_credentials_from_session(r.rSess, r.mSess, call.sid) = r.cred
                      ELSE r.rSess = rSess /\ r.mSess = mSess)
  /\ [][\/ rUser' = rUser /\ nextTok' = nextTok /\ flow' = flow
        \/ ~ \E p \in FlowProcs, call \in Calls :
               ExpiredNoPath(call) /\ get_credentials(p, call)]_vars

\* C35 witness: an expired credential with a refresh token and the required
\* scope is found; with the client secrets path the call goes to the refresh,
\* without it the call returns None on the missing path.
C35_Witness ==
  \E call \in Calls :
    /\ ExpiredNoPath(call)
    /\ get_credentials_result(call).why = "no_secrets_path"
    /\ get_credentials_result(call).val = None
    /\ get_credentials_result([call EXCEPT !.csp = TRUE]).why = "refresh"

\* C36: get_authenticated_google_service returns a service only for a
\* credential that get_credentials returned and that is valid; every other
\* end is a GoogleAuthenticationError, raised for a well-formed email only
\* after exactly one new pending record without session id was registered
\* for the supplied tenant, and raised for an empty email or one without
\* "@" before any store is read or written.
\* Violated: a start_auth_flow that cannot build its flow has registered the
\* record and leaves with a plain Exception.
C36_ServiceOrAuthError ==
  /\ [](\A user_google_email \in {NoneStr, "no-at"}, required_scopes \in GrantSets, client_id \in OptTenant, client_secret \in OptSecret, configured \in BOOLEAN, built \in BOOLEAN :
          \A res \in {get_authenticated_google_service_result(user_google_email, required_scopes, client_id, client_secret, configured, built)} :
             res.out = "GoogleAuthenticationError" /\ ~res.reads /\ ~res.starts)
  /\ [][\/ svars' = svars /\ cvars' = cvars
        \/ \A p \in FlowProcs, user_google_email \in Users, required_scopes \in GrantSets, client_id \in OptTenant, client_secret \in OptSecret, configured \in BOOLEAN, built \in BOOLEAN, state \in StateTokens :
             \A res \in {get_authenticated_google_service_result(user_google_email, required_scopes, client_id, client_secret, configured, built)},
                r \in {get_credentials_result(ServiceCall(user_google_email, required_scopes, client_id))} :
               get_authenticated_google_service(p, user_google_email, required_scopes, client_id, client_secret, configured, built, state) =>
                 /\ res.out = "service" => (r.val # None /\ valid(r.val))
                 /\ res.out \notin {"service", "refresh"} =>
                      /\ res.out = "GoogleAuthenticationError"
                      /\ issued' = issued \cup {state}
                      /\ stored'[state] = OAuthStateInfo(NoneStr, client_id, client_secret)
                      /\ \A t \in StateTokens \ {state} : stored'[t] = stored[t]]_vars

\* the multi-tenant calls without a session id that lack the user identity or
\* the tenant client id
UnkeyedCalls ==
  {call \in Calls : ~call.single /\ ~Truthy(call.sid) /\ ~(Truthy(call.user) /\ Truthy(call.cid))}

\* C37: in multi-tenant mode get_credentials called without a session id and
\* without both a user identity and a tenant client id returns None, reads
\* and writes no store and does not call the provider.
C37_UnkeyedCallReturnsNone ==
  /\ [](\A call \in UnkeyedCalls :
          \A r \in {get_credentials_result(call)} :
            /\ r.why = "not_found" /\ r.val = None /\ r.cred = None
            /\ r.ureads = 0 /\ ~r.touch
            /\ r.rSess = rSess /\ r.mSess = mSess)
  /\ [][\/ UNCHANGED <<rconn, cvars>>
        \/ ~\E p \in FlowProcs, call \in UnkeyedCalls : get_credentials(p, call)]_vars

\* C37 witness: the stores hold a valid credential under a session key and
\* under an identity key, and a call naming the user but neither session nor
\* tenant gets nothing.
C37_Witness ==
  \E call \in UnkeyedCalls :
    /\ Truthy(call.user)
    /\ \E s \in SessionIds : load_credentials_from_session(rSess, mSess, s) # None
    /\ \E cid \in Tenants :
         /\ load_credentials_from_file(rUser, call.user, cid) # None
         /\ valid(load_credentials_from_file(rUser, call.user, cid))
    /\ get_credentials_result(call).why = "not_found"

\* C38: in every reachable state a pending token is held in at most one tier
\* that a later get_oauth_state can answer from, Redis or the in-memory maps,
\* and every key of the legacy session-id map is also a key of the in-memory
\* state-info map.
\* Violated: get_oauth_state pops the state-info entry and leaves the legacy
\* entry, which answers the next get_oauth_state.
C38_TierExclusive ==
  \A t \in StateTokens :
    /\ ~(rOauth[t] # None /\ (infoMap[t] # None \/ Truthy(legacyMap[t])))
    /\ Truthy(legacyMap[t]) => infoMap[t] # None

====
